---- MODULE Spec2Model ----
(***************************************************************************)
(* Catalog-integrity engine of halo-halo-patterns.                         *)
(*                                                                         *)
(*   scripts/patternlint.mjs  - the full engine (validate, staleness, ...) *)
(*   scripts/staleness.sh     - the degraded standalone auditor            *)
(*                                                                         *)
(* A text is a sequence of one-character strings.  A document is an        *)
(* opening line and a sequence of header lines; a header line is either    *)
(* "key: val" or a block-list item "  - val".                              *)
(***************************************************************************)
EXTENDS Integers, Sequences, FiniteSets, TLC

\* ------------------------------------------------------------------------
\* Characters and texts
\* ------------------------------------------------------------------------

\* The characters used, in increasing UTF-16 code unit order.
Alphabet ==
  << " ", "\"", "#", "'", ",", "-",
     "0", "1", "2", "3", "4", "5", "6", "7", "8", "9",
     "A", "B", "[", "]",
     "a", "b", "c", "d", "e", "f", "g", "h", "i", "j", "k", "l", "m",
     "n", "o", "p", "q", "r", "s", "t", "u", "v", "w", "x", "y", "z" >>

Ord(c) == CHOOSE i \in 1..Len(Alphabet) : Alphabet[i] = c

Digits == {"0", "1", "2", "3", "4", "5", "6", "7", "8", "9"}

DigitVal(c) == Ord(c) - Ord("0")

IsSpace(c) == c = " "

Min2(a, b) == IF a < b THEN a ELSE b

\* JavaScript's < on two strings: lexicographic by code unit.
StrLt(a, b) ==
  LET n == Min2(Len(a), Len(b))
      diff == {i \in 1..n : a[i] # b[i]}
  IN  IF diff = {} THEN Len(a) < Len(b)
      ELSE LET i == CHOOSE j \in diff : \A h \in diff : j <= h
           IN  Ord(a[i]) < Ord(b[i])

\* Leading / trailing whitespace removal.
RECURSIVE LStrip(_)
LStrip(t) == IF t # <<>> /\ IsSpace(Head(t)) THEN LStrip(Tail(t)) ELSE t

RECURSIVE RStrip(_)
RStrip(t) ==
  IF t # <<>> /\ IsSpace(t[Len(t)]) THEN RStrip(SubSeq(t, 1, Len(t) - 1)) ELSE t

Strip(t) == RStrip(LStrip(t))

\* ------------------------------------------------------------------------
\* Named texts
\* ------------------------------------------------------------------------

tValidated  == << "v", "a", "l", "i", "d", "a", "t", "e", "d" >>
tDeprecated == << "d", "e", "p", "r", "e", "c", "a", "t", "e", "d" >>
tDraft      == << "d", "r", "a", "f", "t" >>

\* ------------------------------------------------------------------------
\* Parsed values (what the YAML loader behind matter() hands to the engine)
\* ------------------------------------------------------------------------

Null       == [k |-> "null", s |-> <<>>, xs |-> <<>>]
Str(t)     == [k |-> "str",  s |-> t,    xs |-> <<>>]
DateObj(t) == [k |-> "date", s |-> t,    xs |-> <<>>]
Num(t)     == [k |-> "num",  s |-> t,    xs |-> <<>>]
List(vs)   == [k |-> "list", s |-> <<>>, xs |-> vs]
Thrown     == [k |-> "throw", s |-> <<>>, xs |-> <<>>]
Bool(t)    == [k |-> "bool", s |-> t,    xs |-> <<>>]

tTrue  == << "t", "r", "u", "e" >>
tFalse == << "f", "a", "l", "s", "e" >>

\* JavaScript truthiness of a parsed value.
Truthy(v) ==
  CASE v.k = "null" -> FALSE
    [] v.k = "str"  -> v.s # <<>>
    [] v.k = "num"  -> \E i \in 1..Len(v.s) : v.s[i] # "0"
    [] v.k = "bool" -> v.s = tTrue
    [] OTHER        -> TRUE

\* Position of the first occurrence of character c in t at or after from, 0 if none.
IndexOf(t, c, from) ==
  LET hits == {i \in from..Len(t) : t[i] = c}
  IN  IF hits = {} THEN 0 ELSE CHOOSE i \in hits : \A j \in hits : i <= j

\* A "#" starts a comment when it is the first character or follows a space.
StripComment(t) ==
  LET hits == {i \in 1..Len(t) : t[i] = "#" /\ (i = 1 \/ IsSpace(t[i - 1]))}
  IN  IF hits = {} THEN t
      ELSE SubSeq(t, 1, (CHOOSE i \in hits : \A j \in hits : i <= j) - 1)

\* YAML timestamp shape dddd-dd-dd (the loader's date regular expression).
IsDateShape(t) ==
  /\ Len(t) = 10
  /\ \A i \in {1, 2, 3, 4, 6, 7, 9, 10} : t[i] \in Digits
  /\ t[5] = "-" /\ t[8] = "-"

IsAllDigits(t) == t # <<>> /\ \A i \in 1..Len(t) : t[i] \in Digits

\* A plain (unquoted, non-flow) scalar, comment already removed.
YamlPlain(t) ==
  LET u == Strip(t)
  IN  CASE u = <<>>        -> Null
        [] IsDateShape(u)  -> DateObj(u)
        [] IsAllDigits(u)  -> Num(u)
        [] u \in {tTrue, tFalse} -> Bool(u)
        [] OTHER           -> Str(u)

\* A quoted scalar: the text up to the matching quote; what follows the
\* closing quote must be blank or a comment; no closing quote is an error.
YamlQuoted(t) ==
  LET q == t[1]
      j == IndexOf(t, q, 2)
  IN  IF j = 0 THEN Thrown
      ELSE IF Strip(StripComment(SubSeq(t, j + 1, Len(t)))) # <<>> THEN Thrown
      ELSE Str(SubSeq(t, 2, j - 1))

YamlAtom(t) ==
  LET u == LStrip(t)
  IN  IF u # <<>> /\ u[1] \in {"\"", "'"} THEN YamlQuoted(u)
      ELSE YamlPlain(StripComment(u))

\* Items of a flow sequence body "a, b".
RECURSIVE FlowItems(_)
FlowItems(t) ==
  LET j == IndexOf(t, ",", 1)
  IN  IF Strip(t) = <<>> THEN <<>>
      ELSE IF j = 0 THEN << YamlAtom(t) >>
      ELSE << YamlAtom(SubSeq(t, 1, j - 1)) >> \o FlowItems(SubSeq(t, j + 1, Len(t)))

\* The value of "key: raw" when raw is not blank.
YamlScalar(raw) ==
  LET u == LStrip(raw)
      w == Strip(StripComment(u))
  IN  IF u # <<>> /\ u[1] = "["
      THEN IF w[Len(w)] = "]" THEN List(FlowItems(SubSeq(w, 2, Len(w) - 1)))
           ELSE Thrown
      ELSE YamlAtom(u)

\* ------------------------------------------------------------------------
\* Documents
\* ------------------------------------------------------------------------

\* A header line "key:raw" or a block-list item "  -raw".
KV(k, raw) == [item |-> FALSE, key |-> k, raw |-> raw]
It(raw)    == [item |-> TRUE,  key |-> "", raw |-> raw]

\* open: line 1 of the file is exactly "---" (the header is then closed by
\* the next "---" line); header: the lines in between.
\* schemaOk: validateSchema(data) finds no error (the schema file is an input);
\* blocked, warned: where the block rule / warn rule matches the raw text: 0
\* when it does not, else the index just after its match, which is one
\* character long (the rule file is an input); headings: the "## " headings of the body; chars: the
\* character count extractBodyChars finds.
VDoc(open, header, schemaOk, blocked, warned, headings, chars) ==
  [open |-> open, header |-> header, schemaOk |-> schemaOk, blocked |-> blocked,
   warned |-> warned, headings |-> headings, chars |-> chars]

Doc(open, header) == VDoc(open, header, TRUE, 0, 0, {}, 0)

Keys == {"id", "status", "review_by", "last_verified", "related", "deprecated_date",
         "title", "type", "domain", "tags", "maintainers"}

IsBlank(t) == Strip(t) = <<>>

\* Index of the first "key:" line of the header, 0 if none.
KeyLine(h, k) ==
  LET hits == {i \in 1..Len(h) : ~h[i].item /\ h[i].key = k}
  IN  IF hits = {} THEN 0 ELSE CHOOSE i \in hits : \A j \in hits : i <= j

\* The block-list items that directly follow line i.
RECURSIVE ItemsAfter(_, _)
ItemsAfter(h, i) ==
  IF i + 1 <= Len(h) /\ h[i + 1].item
  THEN << h[i + 1].raw >> \o ItemsAfter(h, i + 1)
  ELSE <<>>

YamlItems(raws) == [i \in 1..Len(raws) |-> YamlAtom(raws[i])]

\* data[k] as the YAML loader resolves it.
YamlField(h, k) ==
  LET i == KeyLine(h, k)
  IN  IF i = 0 THEN Null
      ELSE IF IsBlank(StripComment(LStrip(h[i].raw)))
           THEN IF ItemsAfter(h, i) = <<>> THEN Null
                ELSE List(YamlItems(ItemsAfter(h, i)))
           ELSE YamlScalar(h[i].raw)

HasThrown(v) == v.k = "throw" \/ \E i \in 1..Len(v.xs) : v.xs[i].k = "throw"

\* matter(raw): the parsed header.  ok = FALSE when the loader throws.
\* A file whose first line is not "---" has no front matter: data = {}.
matter(d) ==
  LET data == [k \in Keys |-> IF d.open THEN YamlField(d.header, k) ELSE Null]
  IN  [ok |-> \A k \in Keys : ~HasThrown(data[k]), data |-> data]

\* ------------------------------------------------------------------------
\* The degraded line-oriented parser of staleness.sh
\* ------------------------------------------------------------------------

\* front_matter and fm_list_block name an awk variable "in".  "in" is a
\* reserved word of the awk language, so awk rejects the program text: it
\* prints nothing and exits with status 2.
InIsReservedWord == TRUE

\* What awk prints for a program that uses "in" as a variable.
AwkUsingIn(out) == IF InIsReservedWord THEN <<>> ELSE out

\* front_matter: the awk error is discarded (2>/dev/null || true).
front_matter(d) == AwkUsingIn(IF d.open THEN d.header ELSE <<>>)

\* trim: one leading and one trailing double quote, then one leading and
\* one trailing single quote, then surrounding whitespace.
DropPrefix(t, c) == IF t # <<>> /\ t[1] = c THEN Tail(t) ELSE t
DropSuffix(t, c) == IF t # <<>> /\ t[Len(t)] = c THEN SubSeq(t, 1, Len(t) - 1) ELSE t

trim(t) == Strip(DropSuffix(DropPrefix(DropSuffix(DropPrefix(t, "\""), "\""), "'"), "'"))

\* fm_scalar: the first line "key:" or "key:<space>..." with the key and the
\* whitespace after the colon removed; nothing when no line matches.
fm_scalar(fm, k) ==
  LET hits == {i \in 1..Len(fm) :
                 /\ ~fm[i].item /\ fm[i].key = k
                 /\ (fm[i].raw = <<>> \/ IsSpace(fm[i].raw[1]))}
  IN  IF hits = {} THEN <<>>
      ELSE LStrip(fm[CHOOSE i \in hits : \A j \in hits : i <= j].raw)

\* fm_list_block: the items below the first "key:" line with nothing after
\* the colon, up to the first line that is neither an item nor blank.
RECURSIVE BlockItems(_, _)
BlockItems(fm, i) ==
  IF i > Len(fm) THEN <<>>
  ELSE IF fm[i].item /\ fm[i].raw # <<>> /\ IsSpace(fm[i].raw[1])
       THEN << LStrip(fm[i].raw) >> \o BlockItems(fm, i + 1)
       ELSE <<>>

fm_list_block(fm, k) ==
  LET hits == {i \in 1..Len(fm) : ~fm[i].item /\ fm[i].key = k /\ IsBlank(fm[i].raw)}
  IN  AwkUsingIn(IF hits = {} THEN <<>>
                 ELSE BlockItems(fm, (CHOOSE i \in hits : \A j \in hits : i <= j) + 1))

\* date.fromisoformat: YYYY-MM-DD with a real month and day.
IsLeap(y) == (y % 4 = 0 /\ y % 100 # 0) \/ y % 400 = 0

DaysIn(y, m) ==
  CASE m = 2 -> IF IsLeap(y) THEN 29 ELSE 28
    [] m \in {4, 6, 9, 11} -> 30
    [] OTHER -> 31

Num2(t, i) == DigitVal(t[i]) * 10 + DigitVal(t[i + 1])
YearOf(t)  == Num2(t, 1) * 100 + Num2(t, 3)
MonthOf(t) == Num2(t, 6)
DayOf(t)   == Num2(t, 9)

IsISODate(t) ==
  /\ IsDateShape(t)
  /\ YearOf(t) >= 1
  /\ MonthOf(t) \in 1..12
  /\ DayOf(t) \in 1..DaysIn(YearOf(t), MonthOf(t))

\* Calendar order of two valid dates.
DateBefore(a, b) ==
  \/ YearOf(a) < YearOf(b)
  \/ YearOf(a) = YearOf(b) /\ MonthOf(a) < MonthOf(b)
  \/ YearOf(a) = YearOf(b) /\ MonthOf(a) = MonthOf(b) /\ DayOf(a) < DayOf(b)

\* date_lt: status 0 when a < b; a Python exception is a non-zero status.
date_lt(a, b) == IsISODate(a) /\ IsISODate(b) /\ DateBefore(a, b)

\* Proleptic day number of a valid date.
RECURSIVE DaysBeforeMonth(_, _)
DaysBeforeMonth(y, m) == IF m = 1 THEN 0 ELSE DaysIn(y, m - 1) + DaysBeforeMonth(y, m - 1)

DayNumber(t) ==
  LET y == YearOf(t) - 1
  IN  365 * y + (y \div 4) - (y \div 100) + (y \div 400)
        + DaysBeforeMonth(YearOf(t), MonthOf(t)) + DayOf(t)

\* Environment override default of the last_verified threshold.
MAX_LAST_VERIFIED_DAYS == 90

\* days_since: [ok, days]; an invalid date prints nothing.
days_since(t, now) ==
  IF IsISODate(t) THEN [ok |-> TRUE, days |-> DayNumber(now) - DayNumber(t)]
  ELSE [ok |-> FALSE, days |-> 0]

\* ------------------------------------------------------------------------
\* Corpus
\* ------------------------------------------------------------------------

NFiles == 2

Sp(t) == << " " >> \o t
Q(t)  == << "\"" >> \o t \o << "\"" >>

p1 == << "p", "1" >>
p2 == << "p", "2" >>

d2020     == << "2", "0", "2", "0", "-", "0", "1", "-", "0", "1" >>
d2025     == << "2", "0", "2", "5", "-", "0", "6", "-", "1", "5" >>
d2030     == << "2", "0", "3", "0", "-", "0", "1", "-", "0", "1" >>
dShort    == << "2", "0", "2", "0", "-", "1", "-", "1" >>
tBad      == << "b", "a", "d" >>
tOld      == << "o", "l", "d" >>
t2020     == << "2", "0", "2", "0" >>

Todays == {d2025, d2020}

Docs ==
  { \* the record of the specification's scenario: plain scalars
    Doc(TRUE, << KV("id", Sp(p1)), KV("status", Sp(tValidated)),
                 KV("review_by", Sp(d2020)) >>),
    \* the same with quoted scalars, and an old last_verified
    Doc(TRUE, << KV("id", Sp(Q(p1))), KV("status", Sp(tValidated)),
                 KV("review_by", Sp(Q(d2020))),
                 KV("last_verified", Sp(Q(d2020))) >>),
    \* review_by in the future
    Doc(TRUE, << KV("id", Sp(p1)), KV("status", Sp(tValidated)),
                 KV("review_by", Sp(Q(d2030))) >>),
    \* review_by that is not an ISO date
    Doc(TRUE, << KV("id", Sp(p1)), KV("status", Sp(tValidated)),
                 KV("review_by", Sp(Q(dShort))) >>),
    \* last_verified that is not an ISO date
    Doc(TRUE, << KV("id", Sp(p1)), KV("status", Sp(tValidated)),
                 KV("last_verified", Sp(Q(tBad))) >>),
    \* a deprecated record
    Doc(TRUE, << KV("id", Sp(p2)), KV("status", Sp(tDeprecated)) >>),
    \* a deprecated record with a trailing comment
    Doc(TRUE, << KV("id", Sp(p2)),
                 KV("status", Sp(tDeprecated) \o << " ", "#", " " >> \o tOld) >>),
    \* a block list of related ids
    Doc(TRUE, << KV("id", Sp(p1)), KV("status", Sp(tDraft)),
                 KV("related", <<>>), It(Sp(p2)) >>),
    \* a block list naming the same id twice
    Doc(TRUE, << KV("id", Sp(p1)), KV("status", Sp(tDraft)),
                 KV("related", <<>>), It(Sp(p2)), It(Sp(p2)) >>),
    \* a flow list
    Doc(TRUE, << KV("id", Sp(p1)), KV("status", Sp(tDraft)),
                 KV("related", Sp(<< "[" >> \o p2 \o << ",", " " >> \o p1 \o << "]" >>)) >>),
    \* related is a number
    Doc(TRUE, << KV("id", Sp(p1)), KV("status", Sp(tDraft)),
                 KV("related", Sp(t2020)) >>),
    \* no id
    Doc(TRUE, << KV("status", Sp(tValidated)), KV("review_by", Sp(Q(d2020))) >>),
    \* an unterminated quoted scalar
    Doc(TRUE, << KV("id", Sp(p1)), KV("status", Sp(<< "\"" >> \o tValidated)) >>),
    \* no front matter
    Doc(FALSE, <<>>) }

Corpora == UNION {[1..n -> Docs] : n \in 0..NFiles}

\* ------------------------------------------------------------------------
\* State
\* ------------------------------------------------------------------------

VARIABLES
  corpus,                \* the record files under the root, in directory order
  today,                 \* today's date, YYYY-MM-DD
  env,                   \* the host: python3 on PATH, catalog root readable,
                         \*   bash treats a declared, never assigned array as unset
                         \*   and which rule tables can be read and parsed
  queue,                 \* the commands still to be run, one process after the other
  jsPc, jsI,             \* patternlint staleness: position and loop index
  byId,                  \* Map id -> {status, file}
  overdue,               \* overdue[]
  deprecatedRefs,        \* deprecatedRefs[]
  jsExit,                \* process exit code, -1 while running
  jsOut,                 \* the JSON report printed, <<>> before
  shPc, shI,             \* staleness.sh: position and loop index
  status_by_id,          \* associative array id -> status
  validated_overdue,     \* array validated_overdue
  validated_warn,        \* array validated_warn
  referenced_deprecated, \* array referenced_deprecated
  shSections,            \* report sections printed
  shWrote,               \* the files staleness.sh created or changed
  shExit,                \* exit status, -1 while running
  vPc, vI,               \* patternlint validate: position and loop index
  meta,                  \* meta[]
  failed,                \* let failed
  vLog,                  \* the failures and warnings printed
  vChecked,              \* the (file, check) pairs evaluated
  vLast,                 \* lastIndex of the compiled block and warn rules
  vExit,                 \* process exit code, -1 while running
  sanRules,              \* rules/sanitization.json: the flags of its rules
  sPc, sI,               \* patternlint sanitize-scan: position and loop index
  sFailed,               \* let failed
  sLog,                  \* the WARN and BLOCK lines printed
  sLast,                 \* lastIndex of the compiled block and warn rules
  sExit,                 \* process exit code, -1 while running
  ixPc, ixI,             \* patternlint index: position and loop index
  rows,                  \* rows[]
  indexMd,               \* INDEX.md under the root
  ixLeft,                \* each finished index run: its exit code, INDEX.md after it
  instPc,                \* install.sh: position
  target,                \* the target's .gitignore and .github/copilot-instructions.md
  instLog,               \* the target before the first run and after each run
  rawText,               \* the text of one record file, character by character
  split,                 \* what matter() and extractBodyChars make of raw
  titleA, titleB,        \* the two titles handed to levenshteinRatio
  ratio                  \* what levenshteinRatio returned

jsVars == << jsPc, jsI, byId, overdue, deprecatedRefs, jsExit, jsOut >>
shVars == << shPc, shI, status_by_id, validated_overdue, validated_warn,
             referenced_deprecated, shSections, shWrote, shExit >>
vVars  == << vPc, vI, meta, failed, vLog, vChecked, vLast, vExit >>
sVars  == << sPc, sI, sFailed, sLog, sLast, sExit >>
ixVars == << ixPc, ixI, rows, indexMd, ixLeft >>
tVars  == << titleA, titleB, ratio, instPc, target, instLog, rawText, split >>
inVars == << corpus, today, env, sanRules >>
vars   == << inVars, queue, jsVars, shVars, vVars, sVars, ixVars, tVars >>

\* what a process leaves alone: the inputs and the other processes
notJs == << inVars, shVars, vVars, sVars, ixVars, tVars >>
notSh == << inVars, jsVars, vVars, sVars, ixVars, tVars >>
notV  == << inVars, jsVars, shVars, sVars, ixVars, tVars >>
notS  == << inVars, jsVars, shVars, vVars, ixVars, tVars >>
notIx == << inVars, jsVars, shVars, vVars, sVars, tVars >>

EmptyMap == [x \in {} |-> 0]

\* compileSan: one RegExp per rule, its lastIndex 0
compileSan == [block |-> 0, warn |-> 0]

\* the flags the rules of rules/sanitization.json may carry
SanRuleSets == {[flags |-> <<>>], [flags |-> << "g" >>]}

Put(m, key, v) == [x \in DOMAIN m \cup {key} |-> IF x = key THEN v ELSE m[x]]

\* the command at the head of the queue is the running process
Running(c) == queue # <<>> /\ Head(queue) = c

\* no INDEX.md under the root
NoIndex == [exists |-> FALSE, head |-> <<>>, rows |-> <<>>]

\* levenshteinRatio not called
NoRatio == [num |-> 0, den |-> 0]

\* a file that does not exist; a file is its lines, and eol tells whether
\* the last of them ends with a newline
NoFile == [exists |-> FALSE, lines |-> <<>>, eol |-> TRUE]

\* the file not read yet
NoSplit == [done |-> FALSE, matter |-> <<>>, content |-> <<>>, chars |-> 0, short |-> FALSE]

NoTarget ==
  /\ rawText = <<>> /\ split = NoSplit
  /\ instPc = "merge" /\ instLog = <<>>
  /\ target = [gitignore |-> NoFile, copilot |-> NoFile]

NoTitle == titleA = <<>> /\ titleB = <<>> /\ ratio = NoRatio /\ NoTarget

\* every process of the engine at its start
Idle ==
  /\ jsPc = "load" /\ jsI = 1
  /\ byId = EmptyMap /\ overdue = <<>> /\ deprecatedRefs = <<>>
  /\ jsExit = -1 /\ jsOut = <<>>
  /\ shPc = "start" /\ shI = 1
  /\ status_by_id = EmptyMap
  /\ validated_overdue = <<>> /\ validated_warn = <<>> /\ referenced_deprecated = <<>>
  /\ shSections = {} /\ shWrote = {} /\ shExit = -1
  /\ vPc = "meta" /\ vI = 1
  /\ meta = <<>> /\ failed = FALSE /\ vLog = {} /\ vChecked = {} /\ vExit = -1
  /\ vLast = compileSan
  /\ sPc = "scan" /\ sI = 1 /\ sFailed = FALSE /\ sLog = {} /\ sExit = -1
  /\ sLast = compileSan
  /\ ixPc = "rows" /\ ixI = 1 /\ rows = <<>> /\ ixLeft = <<>>

Fresh == Idle /\ NoTitle /\ indexMd = NoIndex

\* lines 70-73: the tables main reads, schema/pattern.schema.json and
\* rules/lifecycle.json, rules/sanitization.json, rules/gatekeeper.json
RuleTables == {"schema", "lifecycle", "sanitization", "gatekeeper"}

\* every table is there and is JSON
AllTables == [t \in RuleTables |-> TRUE]

\* the two staleness front ends on one corpus
Init ==
  /\ corpus \in Corpora
  /\ today \in Todays
  /\ env \in [python3 : BOOLEAN, rootOk : BOOLEAN, nounsetStrict : BOOLEAN,
             tables : {AllTables}]
  /\ sanRules = [flags |-> <<>>]
  /\ queue = << "staleness", "staleness.sh" >>
  /\ Fresh

\* ------------------------------------------------------------------------
\* patternlint.mjs staleness
\* ------------------------------------------------------------------------

\* Map keys compare by value for strings and numbers and by identity for
\* objects; an object key (Date, Array) is never found again by a later get.
IsMapKey(v) == v.k \in {"str", "num"}

\* a < today in JavaScript, today being a string.  A Date or a number is
\* compared numerically with Number(today) = NaN: false.
JsLess(v, now) ==
  CASE v.k = "str" -> StrLt(v.s, now)
    [] OTHER       -> FALSE

\* data.status === "validated" && data.review_by && data.review_by < today
JsIsOverdue(data, now) ==
  /\ data["status"] = Str(tValidated)
  /\ Truthy(data["review_by"])
  /\ JsLess(data["review_by"], now)

\* for (const rel of (data.related || [])) : the values iterated;
\* a string iterates its characters.
JsRelated(v) ==
  CASE ~Truthy(v)   -> <<>>
    [] v.k = "list" -> v.xs
    [] v.k = "str"  -> [i \in 1..Len(v.s) |-> Str(<< v.s[i] >>)]
    [] OTHER        -> <<>>

\* a truthy number or a Date is not iterable: TypeError
JsRelatedThrows(v) == Truthy(v) /\ v.k \in {"num", "date"}

JsIsDeprecated(m, rel) ==
  IsMapKey(rel) /\ rel \in DOMAIN m /\ m[rel].status = Str(tDeprecated)

\* the entries pushed to deprecatedRefs for one file
RECURSIVE JsRefs(_, _, _, _)
JsRefs(m, data, f, rels) ==
  IF rels = <<>> THEN <<>>
  ELSE (IF JsIsDeprecated(m, Head(rels))
        THEN << [id |-> data["id"], references |-> Head(rels), file |-> f] >>
        ELSE <<>>) \o JsRefs(m, data, f, Tail(rels))

\* an exit code that would make a non-empty overdue list blocking
JsStalenessExitBlocking(ov) == IF ov # <<>> THEN 2 ELSE 0

\* line 190: process.exit(0)
JsStalenessExit(ov) == 0

\* an exception reaches main().catch: exit 1, nothing printed
JsCrash ==
  /\ jsPc' = "done" /\ jsExit' = 1 /\ queue' = Tail(queue)
  /\ UNCHANGED << jsI, byId, overdue, deprecatedRefs, jsOut >>

\* lines 173-176: one iteration of the byId loop
JsLoad ==
  /\ Running("staleness")
  /\ jsPc = "load" /\ jsI <= Len(corpus)
  /\ LET parsed == matter(corpus[jsI])
         data == parsed.data
     IN  IF ~parsed.ok THEN JsCrash
         ELSE /\ byId' = IF Truthy(data["id"]) /\ IsMapKey(data["id"])
                         THEN Put(byId, data["id"], [status |-> data["status"], file |-> jsI])
                         ELSE byId
              /\ jsI' = jsI + 1
              /\ UNCHANGED << queue, jsPc, overdue, deprecatedRefs, jsExit, jsOut >>
  /\ UNCHANGED << notJs >>

JsLoaded ==
  /\ Running("staleness")
  /\ jsPc = "load" /\ jsI > Len(corpus)
  /\ jsPc' = "audit" /\ jsI' = 1
  /\ UNCHANGED << queue, byId, overdue, deprecatedRefs, jsExit, jsOut,
                  notJs >>

\* lines 177-188: one iteration of the audit loop
JsAudit ==
  /\ Running("staleness")
  /\ jsPc = "audit" /\ jsI <= Len(corpus)
  /\ LET data == matter(corpus[jsI]).data
     IN  IF JsRelatedThrows(data["related"]) THEN JsCrash
         ELSE /\ overdue' = IF JsIsOverdue(data, today)
                            THEN Append(overdue, [id |-> data["id"],
                                                  review_by |-> data["review_by"],
                                                  file |-> jsI])
                            ELSE overdue
              /\ deprecatedRefs' = deprecatedRefs \o
                                     JsRefs(byId, data, jsI, JsRelated(data["related"]))
              /\ jsI' = jsI + 1
              /\ UNCHANGED << queue, jsPc, byId, jsExit, jsOut >>
  /\ UNCHANGED << notJs >>

\* lines 189-190: print the report and exit
JsReport ==
  /\ Running("staleness")
  /\ jsPc = "audit" /\ jsI > Len(corpus)
  /\ jsOut' = << [overdue |-> overdue, deprecatedRefs |-> deprecatedRefs] >>
  /\ jsPc' = "done" /\ jsExit' = JsStalenessExit(overdue) /\ queue' = Tail(queue)
  /\ UNCHANGED << jsI, byId, overdue, deprecatedRefs, notJs >>

\* ------------------------------------------------------------------------
\* staleness.sh
\* ------------------------------------------------------------------------

\* find "$CATALOG_ROOT" ... 2>/dev/null : an unreadable root lists nothing
ShFiles == IF env.rootOk THEN corpus ELSE <<>>

\* lines 29-39: the python3 check
ShStart ==
  /\ Running("staleness.sh")
  /\ shPc = "start"
  /\ IF env.python3
     THEN shPc' = "scan" /\ shExit' = shExit /\ queue' = queue
     ELSE shPc' = "done" /\ shExit' = 1 /\ queue' = Tail(queue)
  /\ UNCHANGED << shI, status_by_id, validated_overdue, validated_warn,
                  referenced_deprecated, shSections, shWrote, notSh >>

\* the scalars the first pass reads from one front matter
ShFields(fm) ==
  [k \in {"id", "status", "review_by", "last_verified", "deprecated_date"} |->
     trim(fm_scalar(fm, k))]

\* lines 126-158: one iteration of the first pass
ShScan ==
  /\ Running("staleness.sh")
  /\ shPc = "scan" /\ shI <= Len(ShFiles)
  /\ LET fm == front_matter(ShFiles[shI])
         r == ShFields(fm)
         ds == days_since(r["last_verified"], today)
     IN  IF fm = <<>> \/ r["id"] = <<>>
         THEN UNCHANGED << status_by_id, validated_overdue, validated_warn >>
         ELSE /\ status_by_id' = Put(status_by_id, r["id"], r["status"])
              /\ validated_overdue' =
                   IF /\ r["status"] = tValidated
                      /\ r["review_by"] # <<>>
                      /\ date_lt(r["review_by"], today)
                   THEN Append(validated_overdue,
                               [id |-> r["id"], file |-> shI, review_by |-> r["review_by"]])
                   ELSE validated_overdue
              /\ validated_warn' =
                   IF /\ r["status"] = tValidated
                      /\ r["last_verified"] # <<>>
                      /\ ds.ok /\ ds.days > MAX_LAST_VERIFIED_DAYS
                   THEN Append(validated_warn,
                               [id |-> r["id"], file |-> shI,
                                last_verified |-> r["last_verified"]])
                   ELSE validated_warn
  /\ shI' = shI + 1
  /\ UNCHANGED << queue, shPc, referenced_deprecated, shSections, shWrote, shExit,
                  notSh >>

ShScanned ==
  /\ Running("staleness.sh")
  /\ shPc = "scan" /\ shI > Len(ShFiles)
  /\ shPc' = "second" /\ shI' = 1
  /\ UNCHANGED << queue, status_by_id, validated_overdue, validated_warn,
                  referenced_deprecated, shSections, shWrote, shExit, notSh >>

\* the entries appended to referenced_deprecated for one file
RECURSIVE ShRefs(_, _, _, _)
ShRefs(m, id, f, rids) ==
  IF rids = <<>> THEN <<>>
  ELSE LET rid == trim(Head(rids))
       IN  (IF rid # <<>> /\ rid \in DOMAIN m /\ m[rid] = tDeprecated
            THEN << [id |-> id, file |-> f, references |-> rid] >>
            ELSE <<>>) \o ShRefs(m, id, f, Tail(rids))

\* lines 161-174: one iteration of the second pass
ShSecond ==
  /\ Running("staleness.sh")
  /\ shPc = "second" /\ shI <= Len(ShFiles)
  /\ LET fm == front_matter(ShFiles[shI])
         id == trim(fm_scalar(fm, "id"))
     IN  referenced_deprecated' =
           IF fm = <<>> \/ id = <<>> THEN referenced_deprecated
           ELSE referenced_deprecated \o
                  ShRefs(status_by_id, id, shI, fm_list_block(fm, "related"))
  /\ shI' = shI + 1
  /\ UNCHANGED << queue, shPc, status_by_id, validated_overdue, validated_warn,
                  shSections, shWrote, shExit, notSh >>

\* "${#a[@]}" under set -u: an array that was declared and never appended
\* to is unset; bash 4.4 and later then stop with "unbound variable"
\* (status 1), bash 4.0-4.3 expand it to 0.
Unbound(a) == env.nounsetStrict /\ a = <<>>

\* lines 229-410: the file goes on after the report with two copies of an
\* install script.  A run that was not ended by line 226 or by an unbound
\* variable runs them with TARGET = "${1:-.}", the catalog root it was
\* given: they make directories under it (lines 243-247, 312-316), touch
\* .gitignore and append the ignore block to it (lines 256-266) and write
\* .patterns/local/README.md (lines 274-287).
InstallTailFiles == {".gitignore", ".patterns/local/README.md"}

\* lines 178-410: the report, the exit status, and what follows them.  Under
\* set -e the first mkdir that fails (line 243) ends the run with status 1.
ShReport ==
  /\ Running("staleness.sh")
  /\ shPc = "second" /\ shI > Len(ShFiles)
  /\ shPc' = "done" /\ queue' = Tail(queue)
  /\ IF Unbound(validated_overdue)
     THEN shSections' = {"header"} /\ shExit' = 1 /\ shWrote' = {}
     ELSE IF Unbound(validated_warn)
     THEN shSections' = {"header", "overdue"} /\ shExit' = 1 /\ shWrote' = {}
     ELSE IF Unbound(referenced_deprecated)
     THEN shSections' = {"header", "overdue", "warnings"} /\ shExit' = 1 /\ shWrote' = {}
     ELSE /\ shSections' = {"header", "overdue", "warnings", "references"}
          /\ IF Len(validated_overdue) > 0
             THEN shExit' = 2 /\ shWrote' = {}
             ELSE \E writable \in BOOLEAN :
                    IF writable
                    THEN shExit' = 0 /\ shWrote' = InstallTailFiles
                    ELSE shExit' = 1 /\ shWrote' = {}
  /\ UNCHANGED << shI, status_by_id, validated_overdue, validated_warn,
                  referenced_deprecated, notSh >>

Next ==
  \/ JsLoad \/ JsLoaded \/ JsAudit \/ JsReport
  \/ ShStart \/ ShScan \/ ShScanned \/ ShSecond \/ ShReport

Spec == Init /\ [][Next]_vars

\* ------------------------------------------------------------------------
\* patternlint.mjs validate
\* ------------------------------------------------------------------------

tOther       == << "o", "t", "h", "e", "r" >>

\* rules/lifecycle.json and rules/gatekeeper.json as loaded by readJSON
lifecycle ==
  [required_sections_by_type |-> (tOther :> << "Fix", "Why" >>),
   min_body_chars |-> 3,
   required_front_matter_fields |-> << "maintainers", "title" >>]

gate == [min_tag_overlap |-> 3, or_title_levenshtein_ratio |-> 70]

\* getReqSections: required_sections_by_type?.[type] || []
getReqSections(lc, type) ==
  IF type.k = "str" /\ type.s \in DOMAIN lc.required_sections_by_type
  THEN lc.required_sections_by_type[type.s] ELSE <<>>

\* hasSection: a line "## heading" is in the body
hasSection(d, heading) == heading \in d.headings

\* extractBodyChars
extractBodyChars(d) == d.chars

\* r.re.test(content) for a rule whose match ends at index at (0: no match)
\* and whose lastIndex is last: without the g flag the search starts at 0 and
\* lastIndex stays 0; with it the search starts at lastIndex, a match moves
\* lastIndex past it and a failure resets it to 0
reTest(at, last) ==
  IF "g" \notin {sanRules.flags[i] : i \in 1..Len(sanRules.flags)}
  THEN [hit |-> at > 0, last |-> 0]
  ELSE IF at > 0 /\ at - 1 >= last
       THEN [hit |-> TRUE, last |-> at]
       ELSE [hit |-> FALSE, last |-> 0]

\* scan: whether a name is pushed to blocked and to warned, and the lastIndex
\* the two rules are left with
scan(d, compiled) ==
  LET b == reTest(d.blocked, compiled.block)
      w == reTest(d.warned, compiled.warn)
  IN  [blocked |-> b.hit, warned |-> w.hit,
       compiled |-> [block |-> b.last, warn |-> w.last]]

Lower(c) == CASE c = "A" -> "a" [] c = "B" -> "b" [] OTHER -> c

IsTitleChar(c) == c = " " \/ c = "-" \/ c \in Digits \/ (Ord(c) >= Ord("a") /\ Ord(c) <= Ord("z"))

\* .replace(/\s+/g, " ")
RECURSIVE CollapseSpaces(_)
CollapseSpaces(t) ==
  IF Len(t) < 2 THEN t
  ELSE IF IsSpace(t[1]) /\ IsSpace(t[2]) THEN CollapseSpaces(Tail(t))
  ELSE << t[1] >> \o CollapseSpaces(Tail(t))

\* normalizeTitle without its trailing .trim()
normalizeTitleUntrimmed(t) ==
  CollapseSpaces(SelectSeq([i \in 1..Len(t) |-> Lower(t[i])], IsTitleChar))

\* normalizeTitle: lower case, drop what is not [a-z0-9\s-], collapse, trim
normalizeTitle(t) ==
  Strip(CollapseSpaces(SelectSeq([i \in 1..Len(t) |-> Lower(t[i])], IsTitleChar)))

Min3(a, b, c) == Min2(a, Min2(b, c))

\* the dp table of levenshteinRatio
editDistance(a, b) ==
  LET dp[i \in 0..Len(a), j \in 0..Len(b)] ==
        IF j = 0 THEN i
        ELSE IF i = 0 THEN j
        ELSE Min3(dp[i - 1, j] + 1, dp[i, j - 1] + 1,
                  dp[i - 1, j - 1] + (IF a[i] = b[j] THEN 0 ELSE 1))
  IN  dp[Len(a), Len(b)]

\* levenshteinRatio as a fraction [num / den]
levenshteinRatio(x, y) ==
  LET a == normalizeTitle(x)
      b == normalizeTitle(y)
      maxLen == IF Len(a) > Len(b) THEN Len(a) ELSE Len(b)
  IN  IF a = <<>> /\ b = <<>> THEN [num |-> 1, den |-> 1]
      ELSE IF a = <<>> \/ b = <<>> THEN [num |-> 0, den |-> 1]
      ELSE [num |-> maxLen - editDistance(a, b), den |-> maxLen]

\* the entry pushed to meta for file f (line 96)
MetaOf(f, data) ==
  [file |-> f, id |-> data["id"], title |-> data["title"], domain |-> data["domain"],
   tags |-> IF Truthy(data["tags"]) THEN data["tags"] ELSE List(<<>>)]

\* self.domain && other.domain && self.domain === other.domain
sameDomain(self, other) ==
  /\ Truthy(self.domain) /\ Truthy(other.domain)
  /\ self.domain.k \in {"str", "num"} /\ self.domain = other.domain

IsInfix(t, u) == \E i \in 0..(Len(u) - Len(t)) : SubSeq(u, i + 1, i + Len(t)) = t

\* other.tags.includes(t) for an array or a string
Includes(tags, t) ==
  CASE tags.k = "list" -> t.k \in {"str", "num"} /\ \E j \in 1..Len(tags.xs) : tags.xs[j] = t
    [] tags.k = "str"  -> t.k = "str" /\ IsInfix(t.s, tags.s)
    [] OTHER           -> FALSE

\* new Set(self.tags.filter(t => other.tags.includes(t))).size
tagOverlap(self, other) ==
  Cardinality({i \in 1..Len(self.tags.xs) :
                 /\ Includes(other.tags, self.tags.xs[i])
                 /\ \A j \in 1..(i - 1) : self.tags.xs[j] # self.tags.xs[i]})

\* TypeError: .filter on a value that is not an array, .includes on a number
\* or a Date, .toLowerCase on a title that is not a string
SimilarityThrows(self, other) ==
  \/ self.tags.k # "list"
  \/ self.tags.xs # <<>> /\ other.tags.k \notin {"list", "str"}
  \/ Truthy(self.title) /\ self.title.k # "str"
  \/ Truthy(other.title) /\ other.title.k # "str"

TitleText(v) == IF Truthy(v) THEN v.s ELSE <<>>

\* line 146: the pair is flagged
IsSimilar(self, other) ==
  LET lev == levenshteinRatio(TitleText(self.title), TitleText(other.title))
  IN  \/ sameDomain(self, other) /\ tagOverlap(self, other) >= gate.min_tag_overlap
      \/ lev.num * 100 >= gate.or_title_levenshtein_ratio * lev.den

\* lines 141-143 for one ordered pair: the three values, or the TypeError
SimilarityOutcome(self, other) ==
  IF SimilarityThrows(self, other)
  THEN [throws |-> TRUE, sameDomain |-> FALSE, overlap |-> 0,
        lev |-> [num |-> 0, den |-> 1]]
  ELSE [throws |-> FALSE, sameDomain |-> sameDomain(self, other),
        overlap |-> tagOverlap(self, other),
        lev |-> levenshteinRatio(TitleText(self.title), TitleText(other.title))]

\* the other entries of meta the similarity loop of file f visits
Others(m, f) == {g \in 1..Len(m) : m[g].file # f /\ Truthy(m[g].id)}

\* lines 118-133: the failures of the three checks made on a validated record
StructureFindings(d, data, f) ==
  LET req == getReqSections(lifecycle, data["type"])
      flds == lifecycle.required_front_matter_fields
  IN  {[kind |-> "STRUCTURE FAIL", file |-> f, what |-> req[i]] :
          i \in {j \in 1..Len(req) : ~hasSection(d, req[j])}}
      \cup (IF extractBodyChars(d) < lifecycle.min_body_chars
            THEN {[kind |-> "STRUCTURE FAIL", file |-> f, what |-> "body too short"]}
            ELSE {})
      \cup {[kind |-> "FRONTMATTER FAIL", file |-> f, what |-> flds[i]] :
          i \in {j \in 1..Len(flds) :
                   \/ ~Truthy(data[flds[j]])
                   \/ data[flds[j]].k = "list" /\ data[flds[j]].xs = <<>>}}

\* the lifecycle checks made whatever the status is
LifecycleFailuresAnyStatus(d, data, f) == StructureFindings(d, data, f)

\* the failures the lifecycle checks of lines 117-134 print for one file
LifecycleFailures(d, data, f) ==
  IF data["status"] # Str(tValidated) THEN {} ELSE StructureFindings(d, data, f)

\* the failures and warnings lines 104-115 print for one file
SchemaAndScanFindings(d, f, compiled) ==
  (IF ~d.schemaOk THEN {[kind |-> "SCHEMA FAIL", file |-> f, what |-> ""]} ELSE {})
  \cup (IF scan(d, compiled).warned
        THEN {[kind |-> "WARN", file |-> f, what |-> ""]} ELSE {})
  \cup (IF scan(d, compiled).blocked
        THEN {[kind |-> "SANITIZE BLOCK", file |-> f, what |-> ""]} ELSE {})

IsFailure(x) == x.kind \in {"SCHEMA FAIL", "SANITIZE BLOCK", "STRUCTURE FAIL", "FRONTMATTER FAIL"}

\* line 152: process.exit(failed ? 1 : 0)
ValidateExit(f) == IF f THEN 1 ELSE 0

\* an exception reaches main().catch: exit 1
VCrash ==
  /\ vPc' = "done" /\ vExit' = 1 /\ queue' = Tail(queue)
  /\ UNCHANGED << vI, meta, failed >>

\* a run in which a similarity warning sets failed as well
SetsFailedByWarning(found, warns) == (\E x \in found : IsFailure(x)) \/ warns # {}

\* the findings that set failed = true (lines 106, 115, 121, 127, 130); the
\* similarity warnings of lines 146-148 are none of them
SetsFailed(found, warns) == \E x \in found : IsFailure(x)

\* lines 93-97: one iteration of the meta loop
VMeta ==
  /\ Running("validate")
  /\ vPc = "meta" /\ vI <= Len(corpus)
  /\ LET parsed == matter(corpus[vI])
     IN  IF ~parsed.ok THEN VCrash
         ELSE /\ meta' = Append(meta, MetaOf(vI, parsed.data))
              /\ vI' = vI + 1
              /\ UNCHANGED << queue, vPc, failed, vExit >>
  /\ UNCHANGED << vLog, vChecked, vLast, notV >>

VMetaDone ==
  /\ Running("validate")
  /\ vPc = "meta" /\ vI > Len(corpus)
  /\ vPc' = "check" /\ vI' = 1
  /\ UNCHANGED << queue, meta, failed, vLog, vChecked, vLast, vExit, notV >>

\* lines 98-151: one iteration of the check loop
VCheck ==
  /\ Running("validate")
  /\ vPc = "check" /\ vI <= Len(corpus)
  /\ LET d == corpus[vI]
         data == matter(d).data
         self == meta[vI]
         others == IF Truthy(self.id) THEN Others(meta, vI) ELSE {}
         found == SchemaAndScanFindings(d, vI, vLast) \cup LifecycleFailures(d, data, vI)
         \* the similarity loop stops at the first pair that throws
         bad == {g \in others : SimilarityThrows(self, meta[g])}
         stop == IF bad = {} THEN Len(meta) + 1
                 ELSE CHOOSE g \in bad : \A h \in bad : g <= h
         warns == {[kind |-> "SIMILARITY WARN", file |-> vI, what |-> g] :
                     g \in {h \in others : h < stop /\ IsSimilar(self, meta[h])}}
     IN  /\ vLog' = vLog \cup found \cup warns
         /\ vLast' = scan(d, vLast).compiled
         /\ vChecked' = vChecked \cup
                          {<< vI, c >> : c \in {"schema", "sanitize", "lifecycle"}}
                          \cup (IF bad = {} THEN {<< vI, "similarity" >>} ELSE {})
         /\ IF bad # {} THEN VCrash
            ELSE /\ failed' = (failed \/ SetsFailed(found, warns))
                 /\ vI' = vI + 1
                 /\ UNCHANGED << queue, vPc, meta, vExit >>
  /\ UNCHANGED << notV >>

\* line 152
VExit ==
  /\ Running("validate")
  /\ vPc = "check" /\ vI > Len(corpus)
  /\ vPc' = "done" /\ vExit' = ValidateExit(failed) /\ queue' = Tail(queue)
  /\ UNCHANGED << vI, meta, failed, vLog, vChecked, vLast, notV >>

\* ------------------------------------------------------------------------
\* patternlint.mjs sanitize-scan
\* ------------------------------------------------------------------------

\* line 87: process.exit(failed ? 1 : 0)
SanitizeExit(f) == IF f THEN 1 ELSE 0

\* lines 84-85: the lines printed for one file
SanitizeFindings(s, f) ==
  (IF s.warned THEN {[kind |-> "WARN", file |-> f]} ELSE {})
  \cup (IF s.blocked THEN {[kind |-> "BLOCK", file |-> f]} ELSE {})

\* line 85: failed = true on a blocked match only
SanitizeFails(s) == s.blocked

\* lines 81-86: one iteration of the loop
SScan ==
  /\ Running("sanitize-scan")
  /\ sPc = "scan" /\ sI <= Len(corpus)
  /\ LET s == scan(corpus[sI], sLast)
     IN  /\ sLog' = sLog \cup SanitizeFindings(s, sI)
         /\ sFailed' = (sFailed \/ SanitizeFails(s))
         /\ sLast' = s.compiled
  /\ sI' = sI + 1
  /\ UNCHANGED << queue, sPc, sExit, notS >>

\* line 87
SExit ==
  /\ Running("sanitize-scan")
  /\ sPc = "scan" /\ sI > Len(corpus)
  /\ sPc' = "done" /\ sExit' = SanitizeExit(sFailed) /\ queue' = Tail(queue)
  /\ UNCHANGED << sI, sFailed, sLog, sLast, notS >>

\* ------------------------------------------------------------------------
\* Specification: sanitize-scan, validate, then staleness, of the full engine
\* on one corpus
\* ------------------------------------------------------------------------

tAb == << "A", "b" >>
tXy == << "x", "y" >>

VDocs ==
  { \* a clean draft
    VDoc(TRUE, << KV("id", Sp(p1)), KV("title", Sp(tAb)), KV("status", Sp(tDraft)) >>,
         TRUE, 0, 0, {}, 0),
    \* a draft the schema rejects
    VDoc(TRUE, << KV("id", Sp(p1)), KV("status", Sp(tDraft)) >>,
         FALSE, 0, 0, {}, 5),
    \* a draft a block rule matches
    VDoc(TRUE, << KV("id", Sp(p2)), KV("status", Sp(tDraft)) >>,
         TRUE, 2, 0, {}, 5),
    \* a draft only a warn rule matches
    VDoc(TRUE, << KV("id", Sp(p2)), KV("title", Sp(tXy)), KV("status", Sp(tDraft)) >>,
         TRUE, 0, 2, {}, 5),
    \* a validated record that meets the lifecycle policy and is overdue
    VDoc(TRUE, << KV("id", Sp(p1)), KV("title", Sp(Q(tAb))), KV("type", Sp(tOther)),
                  KV("status", Sp(tValidated)), KV("review_by", Sp(Q(d2020))),
                  KV("maintainers", <<>>), It(Sp(tXy)) >>,
         TRUE, 0, 0, {"Fix", "Why"}, 5),
    \* a validated record with no section, a short body and no maintainer
    VDoc(TRUE, << KV("id", Sp(p2)), KV("type", Sp(tOther)),
                  KV("status", Sp(tValidated)),
                  KV("maintainers", Sp(<< "[", "]" >>)) >>,
         TRUE, 0, 0, {}, 0),
    \* a title that is a number
    VDoc(TRUE, << KV("id", Sp(p2)), KV("title", Sp(t2020)), KV("status", Sp(tDraft)) >>,
         FALSE, 0, 0, {}, 5),
    \* an unterminated quoted scalar
    VDoc(TRUE, << KV("id", Sp(p1)), KV("status", Sp(<< "\"" >> \o tDraft)) >>,
         TRUE, 0, 0, {}, 5),
    \* no front matter
    VDoc(FALSE, <<>>, TRUE, 0, 0, {}, 5) }

VCorpora == UNION {[1..n -> VDocs] : n \in 0..NFiles}

InitV ==
  /\ corpus \in VCorpora
  /\ today \in Todays
  /\ env = [python3 |-> TRUE, rootOk |-> TRUE, nounsetStrict |-> TRUE,
            tables |-> AllTables]
  /\ sanRules \in SanRuleSets
  /\ queue = << "sanitize-scan", "validate", "staleness" >>
  /\ Fresh

NextV ==
  \/ SScan \/ SExit
  \/ VMeta \/ VMetaDone \/ VCheck \/ VExit
  \/ JsLoad \/ JsLoaded \/ JsAudit \/ JsReport

SpecV == InitV /\ [][NextV]_vars

\* ------------------------------------------------------------------------
\* Specification: validate on a corpus of records with domains, tags and titles
\* ------------------------------------------------------------------------

\* a record with a title, a domain and a tags value; id <<>>: no id line
SimDoc(id, title, domain, tags, items, schemaOk) ==
  VDoc(TRUE,
       (IF id = <<>> THEN <<>> ELSE << KV("id", Sp(id)) >>)
         \o << KV("title", title), KV("domain", domain), KV("tags", tags) >>
         \o [i \in 1..Len(items) |-> It(Sp(<< items[i] >>))],
       schemaOk, 0, 0, {}, 5)

SimDocs ==
  { \* domain xy, tags a b c
    SimDoc(p1, Sp(tAb), Sp(tXy), <<>>, << "a", "b", "c" >>, TRUE),
    \* domain xy, tags a b c d, an unrelated title
    SimDoc(p2, Sp(tXy), Sp(tXy), <<>>, << "a", "b", "c", "d" >>, TRUE),
    \* a repeated tag, no title
    SimDoc(p1, <<>>, Sp(tXy), <<>>, << "a", "a", "b" >>, TRUE),
    \* no id
    SimDoc(<<>>, Sp(tAb), Sp(tXy), <<>>, << "a", "b", "c" >>, TRUE),
    \* tags written as a scalar, no domain
    SimDoc(p2, Sp(<< "a", "b" >>), <<>>, Sp(<< "a", "b", "c" >>), <<>>, FALSE),
    \* another domain, a title with a hyphen
    SimDoc(p2, Sp(<< "a", "-", "b" >>), Sp(tAb), <<>>, << "a", "b", "c" >>, TRUE) }

SimCorpora == UNION {[1..n -> SimDocs] : n \in 0..NFiles}

InitSim ==
  /\ corpus \in SimCorpora
  /\ today = d2025
  /\ env = [python3 |-> TRUE, rootOk |-> TRUE, nounsetStrict |-> TRUE,
            tables |-> AllTables]
  /\ sanRules = [flags |-> <<>>]
  /\ queue = << "validate" >>
  /\ Fresh

NextSim == VMeta \/ VMetaDone \/ VCheck \/ VExit

SpecSim == InitSim /\ [][NextSim]_vars

\* ------------------------------------------------------------------------
\* Specification: validate on a corpus of validated records
\* ------------------------------------------------------------------------

\* a validated record of type other: its maintainers and title lines, the
\* items under the maintainers line, its sections and the length of its body
LcDoc(maintainers, items, title, headings, chars) ==
  VDoc(TRUE,
       << KV("id", Sp(p1)), KV("type", Sp(tOther)), KV("status", Sp(tValidated)) >>
         \o maintainers \o [i \in 1..Len(items) |-> It(Sp(items[i]))] \o title,
       TRUE, 0, 0, headings, chars)

LcDocs ==
  { \* all that the policy asks for
    LcDoc(<< KV("maintainers", <<>>) >>, << tXy >>, << KV("title", Sp(tAb)) >>,
          {"Fix", "Why"}, 5),
    \* nothing of it
    LcDoc(<<>>, <<>>, <<>>, {}, 0),
    \* one section of the two, an empty list, an empty string
    LcDoc(<< KV("maintainers", Sp(<< "[", "]" >>)) >>, <<>>,
          << KV("title", Sp(Q(<<>>))) >>, {"Why"}, 5),
    \* maintainers: 0
    LcDoc(<< KV("maintainers", Sp(<< "0" >>)) >>, <<>>, << KV("title", Sp(tAb)) >>,
          {"Fix", "Why"}, 5),
    \* maintainers: false
    LcDoc(<< KV("maintainers", Sp(tFalse)) >>, <<>>, << KV("title", Sp(tAb)) >>,
          {"Fix", "Why"}, 3),
    \* an unterminated quoted scalar
    LcDoc(<< KV("maintainers", Sp(tXy)) >>, <<>>, << KV("title", Sp(<< "\"" >> \o tAb)) >>,
          {}, 0) }

LcCorpora == UNION {[1..n -> LcDocs] : n \in 0..NFiles}

InitLc ==
  /\ corpus \in LcCorpora
  /\ today = d2025
  /\ env = [python3 |-> TRUE, rootOk |-> TRUE, nounsetStrict |-> TRUE,
            tables |-> AllTables]
  /\ sanRules = [flags |-> <<>>]
  /\ queue = << "validate" >>
  /\ Fresh

NextLc == VMeta \/ VMetaDone \/ VCheck \/ VExit

SpecLc == InitLc /\ [][NextLc]_vars

\* ------------------------------------------------------------------------
\* The text of a record file: matter() and extractBodyChars
\* ------------------------------------------------------------------------

NL == "\n"

\* \s
IsWhite(c) == c \in {" ", NL}

\* "---" stands in t at position i
DashesAt(t, i) == i >= 1 /\ i + 2 <= Len(t) /\ SubSeq(t, i, i + 2) = << "-", "-", "-" >>

\* the least member of a non-empty set of numbers
Least(S) == CHOOSE i \in S : \A j \in S : i <= j

\* String.prototype.trim
RECURSIVE trimWhite(_)
trimWhite(t) ==
  IF t # <<>> /\ IsWhite(Head(t)) THEN trimWhite(Tail(t))
  ELSE IF t # <<>> /\ IsWhite(t[Len(t)]) THEN trimWhite(SubSeq(t, 1, Len(t) - 1))
  ELSE t

\* md.replace(/^---[\s\S]*?---\s*/m, ""): the first place, at the start of
\* a line, where "---" stands with another "---" somewhere after it; the
\* text from there to the nearest such "---" and the white space after it
withoutFirstDashes(t) ==
  LET starts == {i \in 1..Len(t) :
                   /\ i = 1 \/ t[i - 1] = NL
                   /\ DashesAt(t, i)
                   /\ \E j \in (i + 3)..Len(t) : DashesAt(t, j)}
      i == Least(starts)
      j == Least({h \in (i + 3)..Len(t) : DashesAt(t, h)})
      k == Least({h \in (j + 3)..(Len(t) + 1) : h = Len(t) + 1 \/ ~IsWhite(t[h])})
  IN  IF starts = {} THEN t
      ELSE SubSeq(t, 1, i - 1) \o SubSeq(t, k, Len(t))

\* extractBodyChars on the text
extractBodyCharsOf(t) == Len(trimWhite(withoutFirstDashes(t)))

\* matter(raw): front matter there is when the text starts with "---" not
\* followed by a fourth "-"; it ends before the first newline followed by
\* "---", or at the end of the text; content is what follows that "---",
\* less one newline
matterSplit(t) ==
  LET str == SubSeq(t, 4, Len(t))
      closes == {i \in 1..Len(str) : str[i] = NL /\ DashesAt(str, i + 1)}
      c == Least(closes)
      rest == SubSeq(str, c + 4, Len(str))
  IN  IF ~DashesAt(t, 1) \/ (Len(t) >= 4 /\ t[4] = "-")
      THEN [matter |-> <<>>, content |-> t]
      ELSE IF closes = {} THEN [matter |-> str, content |-> <<>>]
      ELSE [matter |-> SubSeq(str, 1, c - 1),
            content |-> IF rest # <<>> /\ Head(rest) = NL THEN Tail(rest) ELSE rest]

\* lines 100-102 and 125-126 for one file
ReadRaw ==
  /\ ~split.done
  /\ split' = [done |-> TRUE,
               matter |-> matterSplit(rawText).matter,
               content |-> matterSplit(rawText).content,
               chars |-> extractBodyCharsOf(rawText),
               short |-> extractBodyCharsOf(rawText) < lifecycle.min_body_chars]
  /\ UNCHANGED << inVars, queue, jsVars, shVars, vVars, sVars, ixVars, titleA, titleB,
                  ratio, instPc, target, instLog, rawText >>

\* ------------------------------------------------------------------------
\* Specification: one record file read
\* ------------------------------------------------------------------------

MaxLines == 5

\* the lines a file is made of, each ended by a newline
RawLines ==
  { << "-", "-", "-" >>, << "a" >>, <<>>, << "k", ":", " ", "a", "-", "-", "-", "b" >>,
    << "-", "-", "-", "-" >>, << "-", "-", "-", " " >> }

RECURSIVE JoinLines(_)
JoinLines(ls) == IF ls = <<>> THEN <<>> ELSE Head(ls) \o << NL >> \o JoinLines(Tail(ls))

Raws == {JoinLines(ls) : ls \in UNION {[1..n -> RawLines] : n \in 0..MaxLines}}

InitRaw ==
  /\ corpus = <<>>
  /\ today = d2025
  /\ env = [python3 |-> TRUE, rootOk |-> TRUE, nounsetStrict |-> TRUE,
            tables |-> AllTables]
  /\ sanRules = [flags |-> <<>>]
  /\ queue = <<>>
  /\ Idle /\ indexMd = NoIndex
  /\ titleA = <<>> /\ titleB = <<>> /\ ratio = NoRatio
  /\ instPc = "merge" /\ instLog = <<>>
  /\ target = [gitignore |-> NoFile, copilot |-> NoFile]
  /\ rawText \in Raws
  /\ split = NoSplit

NextRaw == ReadRaw

SpecRaw == InitRaw /\ [][NextRaw]_vars

\* ------------------------------------------------------------------------
\* Specification: levenshteinRatio on two titles
\* ------------------------------------------------------------------------

MaxTitleLen == 3

\* a letter, a capital, a hyphen, white space, a character that is neither
TitleChars == {"a", "B", "-", " ", "#"}

TitlesUpTo(n) == UNION {[1..k -> TitleChars] : k \in 0..n}

\* a run of white space inside a title; a capital, a hyphen and a sign
LongTitles == {<< "a", " ", " ", "B" >>, << "A", "-", "b", "#" >>}

InitTitle ==
  /\ corpus = <<>>
  /\ today = d2025
  /\ env = [python3 |-> TRUE, rootOk |-> TRUE, nounsetStrict |-> TRUE,
            tables |-> AllTables]
  /\ sanRules = [flags |-> <<>>]
  /\ queue = <<>>
  /\ Idle
  /\ indexMd = NoIndex
  /\ titleA \in TitlesUpTo(MaxTitleLen) \cup LongTitles
  /\ titleB \in TitlesUpTo(2) \cup LongTitles \cup {titleA}
  /\ ratio = NoRatio
  /\ NoTarget

\* line 143: levenshteinRatio(self.title, other.title)
TitleRatio ==
  /\ ratio = NoRatio
  /\ ratio' = levenshteinRatio(titleA, titleB)
  /\ UNCHANGED << inVars, queue, jsVars, shVars, vVars, sVars, ixVars, titleA, titleB,
                  instPc, target, instLog, rawText, split >>

NextTitle == TitleRatio

SpecTitle == InitTitle /\ [][NextTitle]_vars

\* ------------------------------------------------------------------------
\* patternlint.mjs index
\* ------------------------------------------------------------------------

tUndefined == << "u", "n", "d", "e", "f", "i", "n", "e", "d" >>
tNull      == << "n", "u", "l", "l" >>

\* String(v), as a template literal and localeCompare convert a value: a
\* string is itself, a number its decimal digits, a list its items joined
\* by commas; a Date prints as the host renders it, here as it was written
RECURSIVE toText(_)
toText(v) ==
  CASE v.k = "null" -> tNull
    [] v.k = "list" -> IF v.xs = <<>> THEN <<>>
                       ELSE IF Len(v.xs) = 1 THEN toText(v.xs[1])
                       ELSE toText(v.xs[1]) \o << "," >> \o toText(List(Tail(v.xs)))
    [] OTHER        -> v.s

\* ${r.k}: a key the header does not have is undefined
Cell(d, data, k) ==
  IF d.open /\ KeyLine(d.header, k) # 0 THEN toText(data[k]) ELSE tUndefined

\* path.relative(root, f)
PathOf(f) == << "f", Alphabet[Ord("0") + f] >>

\* line 159: the row pushed for file f, with the text of each cell
Row(d, data, f) ==
  [domain |-> data["domain"], id |-> data["id"],
   line |-> << Cell(d, data, "domain"), Cell(d, data, "id"), Cell(d, data, "title"),
               Cell(d, data, "type"), Cell(d, data, "status"), PathOf(f) >>]

\* the collation order of the characters: white space, punctuation, digits,
\* letters; a capital has the place of its small letter
Collation ==
  << " ", "-", ",", "'", "\"", "[", "]", "#",
     "0", "1", "2", "3", "4", "5", "6", "7", "8", "9",
     "a", "b", "c", "d", "e", "f", "g", "h", "i", "j", "k", "l", "m",
     "n", "o", "p", "q", "r", "s", "t", "u", "v", "w", "x", "y", "z" >>

\* x.localeCompare(y): -1, 0 or 1; letters first compared without their
\* case, and when that leaves x and y equal the small letter goes first
localeCompare(x, y) ==
  LET w(c) == CHOOSE i \in 1..Len(Collation) : Collation[i] = Lower(c)
      n == Min2(Len(x), Len(y))
      diff == {i \in 1..n : w(x[i]) # w(y[i])}
      caseDiff == {i \in 1..n : x[i] # y[i]}
  IN  IF diff # {}
      THEN LET i == CHOOSE j \in diff : \A h \in diff : j <= h
           IN  IF w(x[i]) < w(y[i]) THEN -1 ELSE 1
      ELSE IF Len(x) # Len(y) THEN (IF Len(x) < Len(y) THEN -1 ELSE 1)
      ELSE IF caseDiff = {} THEN 0
      ELSE LET i == CHOOSE j \in caseDiff : \A h \in caseDiff : j <= h
           IN  IF Lower(x[i]) = x[i] THEN -1 ELSE 1

\* (v||""), the receiver or the argument of localeCompare
OrEmpty(v) == IF Truthy(v) THEN v ELSE Str(<<>>)

\* line 161, the comparator: sign of (a.domain||"").localeCompare(b.domain||"")
\* || (a.id||"").localeCompare(b.id||""); throws when the receiver is not a
\* string (a number, a Date and a list have no localeCompare)
compareRows(a, b) ==
  LET ad == OrEmpty(a.domain)
      ai == OrEmpty(a.id)
      byDomain == localeCompare(ad.s, toText(OrEmpty(b.domain)))
  IN  IF ad.k # "str" THEN [throws |-> TRUE, sign |-> 0]
      ELSE IF byDomain # 0 THEN [throws |-> FALSE, sign |-> byDomain]
      ELSE IF ai.k # "str" THEN [throws |-> TRUE, sign |-> 0]
      ELSE [throws |-> FALSE, sign |-> localeCompare(ai.s, toText(OrEmpty(b.id)))]

\* Array.prototype.sort on a short array: binary insertion.  The place of
\* pivot among the sorted rows acc[left+1 .. right]; the comparator is
\* called with the later row first.
RECURSIVE insertionPoint(_, _, _, _)
insertionPoint(acc, pivot, left, right) ==
  IF left >= right THEN [throws |-> FALSE, at |-> left]
  ELSE LET mid == left + ((right - left) \div 2)
           c == compareRows(pivot, acc[mid + 1])
       IN  IF c.throws THEN [throws |-> TRUE, at |-> 0]
           ELSE IF c.sign < 0 THEN insertionPoint(acc, pivot, left, mid)
           ELSE insertionPoint(acc, pivot, mid + 1, right)

\* rows.sort(...): rs[k], rs[k+1], ... inserted one after the other into acc
RECURSIVE sortRows(_, _, _)
sortRows(rs, k, acc) ==
  IF k > Len(rs) THEN [throws |-> FALSE, rows |-> acc]
  ELSE LET p == insertionPoint(acc, rs[k], 0, Len(acc))
       IN  IF p.throws THEN [throws |-> TRUE, rows |-> <<>>]
           ELSE sortRows(rs, k + 1,
                         SubSeq(acc, 1, p.at) \o << rs[k] >> \o SubSeq(acc, p.at + 1, Len(acc)))

\* line 162: the lines before the rows (the command's name without the
\* backquotes around it)
IndexHead ==
  << "# Patterns Index", "", "> Auto-generated by patternlint index.", "",
     "| Domain | ID | Title | Type | Status | Path |", "|---|---|---|---|---|---|" >>

\* the rows written after the rows INDEX.md already has
IndexTextAppended(sorted) ==
  [exists |-> TRUE, head |-> IndexHead,
   rows |-> indexMd.rows \o [i \in 1..Len(sorted) |-> sorted[i].line]]

\* lines 162-164: the text written
IndexText(sorted) ==
  [exists |-> TRUE, head |-> IndexHead, rows |-> [i \in 1..Len(sorted) |-> sorted[i].line]]

\* the process ends with exit code c; the next index process starts afresh
IxEnd(c, md) ==
  /\ ixLeft' = Append(ixLeft, [exit |-> c, md |-> md])
  /\ indexMd' = md
  /\ ixPc' = "rows" /\ ixI' = 1 /\ rows' = <<>>
  /\ queue' = Tail(queue)
  /\ UNCHANGED notIx

\* lines 157-160: one iteration of the loop; matter() may throw (line 196)
IxRow ==
  /\ Running("index")
  /\ ixPc = "rows" /\ ixI <= Len(corpus)
  /\ LET m == matter(corpus[ixI])
     IN  IF m.ok
         THEN /\ rows' = Append(rows, Row(corpus[ixI], m.data, ixI))
              /\ ixI' = ixI + 1
              /\ UNCHANGED << queue, ixPc, indexMd, ixLeft, notIx >>
         ELSE IxEnd(1, indexMd)

\* lines 161-166: sort, write, exit 0; a throwing comparator ends the
\* process before anything is written (line 196)
IxWrite ==
  /\ Running("index")
  /\ ixPc = "rows" /\ ixI > Len(corpus)
  /\ LET sorted == sortRows(rows, 1, <<>>)
     IN  IF sorted.throws THEN IxEnd(1, indexMd)
         ELSE IxEnd(0, IndexText(sorted.rows))

\* ------------------------------------------------------------------------
\* Specification: index run twice on one corpus
\* ------------------------------------------------------------------------

tB == << "B" >>

IxDoc(id, domain, title) ==
  Doc(TRUE, (IF id = <<>> THEN <<>> ELSE << KV("id", id) >>)
              \o (IF domain = <<>> THEN <<>> ELSE << KV("domain", domain) >>)
              \o << KV("title", title), KV("status", Sp(tDraft)) >>)

IxDocs ==
  { IxDoc(Sp(p1), Sp(tXy), Sp(tAb)),
    \* the same domain, another id
    IxDoc(Sp(p2), Sp(tXy), Sp(tAb)),
    \* the same domain and id as the first, another title
    IxDoc(Sp(p1), Sp(tXy), Sp(tXy)),
    \* a domain that comes first
    IxDoc(Sp(p1), Sp(<< "a", "-", "b" >>), Sp(tAb)),
    \* a domain that starts with a capital
    IxDoc(Sp(p1), Sp(tB), Sp(tAb)),
    \* neither id nor domain
    IxDoc(<<>>, <<>>, Sp(tAb)),
    \* a domain that is a number
    IxDoc(Sp(p2), Sp(<< "5" >>), Sp(tAb)),
    \* an unterminated quoted scalar
    IxDoc(Sp(p2), Sp(tXy), Sp(<< "\"" >> \o tAb)) }

IxCorpora == UNION {[1..n -> IxDocs] : n \in 0..NFiles}

\* the INDEX.md an earlier run left for another corpus
StaleIndex ==
  [exists |-> TRUE, head |-> IndexHead,
   rows |-> << Row(IxDoc(Sp(p2), Sp(tAb), Sp(tXy)),
                   matter(IxDoc(Sp(p2), Sp(tAb), Sp(tXy))).data, 1).line >>]

InitIx ==
  /\ corpus \in IxCorpora
  /\ today = d2025
  /\ env = [python3 |-> TRUE, rootOk |-> TRUE, nounsetStrict |-> TRUE,
            tables |-> AllTables]
  /\ sanRules = [flags |-> <<>>]
  /\ queue = << "index", "index" >>
  /\ Idle /\ NoTitle
  /\ indexMd \in {NoIndex, StaleIndex}

NextIx == IxRow \/ IxWrite

SpecIx == InitIx /\ [][NextIx]_vars

\* ------------------------------------------------------------------------
\* Reference reading of a record (section 4.1 of the specification):
\* "key: value", comment removed, whitespace trimmed, surrounding quotes
\* stripped; block lists of "- item" lines
\* ------------------------------------------------------------------------

Unquote(t) ==
  IF Len(t) >= 2 /\ t[1] \in {"\"", "'"} /\ t[Len(t)] = t[1]
  THEN SubSeq(t, 2, Len(t) - 1) ELSE t

RefText(raw) == Unquote(Strip(StripComment(LStrip(raw))))

RefScalar(d, k) ==
  IF d.open /\ KeyLine(d.header, k) # 0
  THEN RefText(d.header[KeyLine(d.header, k)].raw) ELSE <<>>

RefRelated(d) ==
  LET i == IF d.open THEN KeyLine(d.header, "related") ELSE 0
      raws == IF i = 0 THEN <<>> ELSE ItemsAfter(d.header, i)
  IN  {RefText(raws[j]) : j \in 1..Len(raws)}

Files == 1..Len(corpus)

\* the records that are overdue: validated, review_by a date before today
OverdueRecords ==
  {f \in Files : /\ RefScalar(corpus[f], "status") = tValidated
                 /\ IsISODate(RefScalar(corpus[f], "review_by"))
                 /\ DateBefore(RefScalar(corpus[f], "review_by"), today)}

\* the ids of the corpus that belong to a deprecated record
DeprecatedIds ==
  {RefScalar(corpus[f], "id") : f \in {g \in Files :
       /\ RefScalar(corpus[g], "id") # <<>>
       /\ RefScalar(corpus[g], "status") = tDeprecated}}

\* what the two front ends reported
JsRan == jsPc = "done" /\ jsExit = 0
ShRan == shPc = "done" /\ env.python3 /\ env.rootOk

JsOverdueFiles == {overdue[i].file : i \in 1..Len(overdue)}
ShOverdueFiles == {validated_overdue[i].file : i \in 1..Len(validated_overdue)}

JsRefPairs ==
  {<< deprecatedRefs[i].file, deprecatedRefs[i].references.s >> :
     i \in 1..Len(deprecatedRefs)}
ShRefPairs ==
  {<< referenced_deprecated[i].file, referenced_deprecated[i].references >> :
     i \in 1..Len(referenced_deprecated)}

JsRefCount(f, b) ==
  Cardinality({i \in 1..Len(deprecatedRefs) :
                 deprecatedRefs[i].file = f /\ deprecatedRefs[i].references.s = b})
ShRefCount(f, b) ==
  Cardinality({i \in 1..Len(referenced_deprecated) :
                 referenced_deprecated[i].file = f /\ referenced_deprecated[i].references = b})

\* ------------------------------------------------------------------------
\* Claims
\* ------------------------------------------------------------------------

\* a required metadata field is absent or empty in the header as written
RefFieldEmpty(d, k) ==
  \/ ~d.open
  \/ KeyLine(d.header, k) = 0
  \/ /\ RefText(d.header[KeyLine(d.header, k)].raw) \in {<<>>, << "[", "]" >>}
     /\ ItemsAfter(d.header, KeyLine(d.header, k)) = <<>>

\* the record has a hard failure: a schema error, a block-rule match or,
\* for a validated record, a missing section, a short body or a missing field
RecordHardFailure(d) ==
  \/ ~d.schemaOk
  \/ d.blocked > 0
  \/ /\ RefScalar(d, "status") = tValidated
     /\ \/ \E i \in 1..Len(getReqSections(lifecycle, Str(RefScalar(d, "type")))) :
             getReqSections(lifecycle, Str(RefScalar(d, "type")))[i] \notin d.headings
        \/ d.chars < lifecycle.min_body_chars
        \/ \E i \in 1..Len(lifecycle.required_front_matter_fields) :
             RefFieldEmpty(d, lifecycle.required_front_matter_fields[i])

\* some header does not parse
SomeHeaderUnparseable == \E f \in Files : ~matter(corpus[f]).ok

\* validate throws: a header does not parse, or the similarity comparison
\* of two records with an id meets a title or tags value of the wrong type
ValidateThrows ==
  \/ SomeHeaderUnparseable
  \/ \E f, g \in Files :
       /\ f # g
       /\ Truthy(matter(corpus[f]).data["id"]) /\ Truthy(matter(corpus[g]).data["id"])
       /\ SimilarityThrows(MetaOf(f, matter(corpus[f]).data), MetaOf(g, matter(corpus[g]).data))

\* staleness throws: a header does not parse or a related value is not iterable
StalenessThrows ==
  \/ SomeHeaderUnparseable
  \/ \E f \in Files : JsRelatedThrows(matter(corpus[f]).data["related"])

Checks == {"schema", "sanitize", "lifecycle", "similarity"}

\* C1: validate exits 0 if and only if no record has a hard
\* failure, and 1 otherwise.
C1_ExitZeroIffNoHardFailure ==
  vPc = "done" =>
    vExit = IF \E f \in Files : RecordHardFailure(corpus[f]) THEN 1 ELSE 0

\* C2: when validate exits, every record has been evaluated with every check.
C2_EveryRecordEveryCheck ==
  vPc = "done" => vChecked = Files \X Checks

\* C8 (as stated): the staleness command exits non-zero when some record is
\* overdue, and overdue records do not change the exit code of validate.
C8_OverdueBlocksStaleness ==
  /\ (jsPc = "done" /\ OverdueRecords # {}) => jsExit # 0
  /\ vPc = "done" =>
       vExit = IF ValidateThrows \/ \E f \in Files : RecordHardFailure(corpus[f])
               THEN 1 ELSE 0

\* C8 (amended): the staleness command of the full engine exits 0 whenever
\* it prints its report, whether or not a record is overdue (1 only when
\* the run throws), and overdue records do not change the exit code of
\* validate.
C8_OverdueNeverChangesExit ==
  /\ jsPc = "done" => jsExit = IF StalenessThrows THEN 1 ELSE 0
  /\ vPc = "done" =>
       vExit = IF ValidateThrows \/ \E f \in Files : RecordHardFailure(corpus[f])
               THEN 1 ELSE 0

\* both commands exit 0 on a corpus with an overdue record
C8_Witness ==
  /\ vPc = "done" /\ vExit = 0
  /\ jsPc = "done" /\ jsExit = 0 /\ overdue # <<>>
  /\ OverdueRecords # {}

\* C3: in both front ends a record is in the Overdue list if and only if
\* its status is validated and its review_by is a date before today.
C3_OverdueIffValidatedAndPast ==
  /\ JsRan => JsOverdueFiles = OverdueRecords
  /\ ShRan => ShOverdueFiles = OverdueRecords

\* C4: on the same corpus and today the two front ends report the same
\* Overdue records and the same DeprecatedReferences entries.
C4_FrontEndsAgree ==
  (JsRan /\ ShRan) =>
     /\ JsOverdueFiles = ShOverdueFiles
     /\ JsRefPairs = ShRefPairs

\* C5: the full parser and the degraded parser give the same values for
\* id, status, review_by, last_verified, related and deprecated_date.
\* (A YAML date counts as the text it was written as.)
FullText(v) == IF v.k \in {"str", "date", "num"} THEN v.s ELSE <<>>

FullScalar(d, k) == FullText(matter(d).data[k])

FullList(d, k) ==
  LET v == matter(d).data[k]
  IN  IF v.k = "list" THEN [i \in 1..Len(v.xs) |-> FullText(v.xs[i])] ELSE <<>>

DegradedScalar(d, k) == trim(fm_scalar(front_matter(d), k))

DegradedList(d, k) ==
  LET raws == fm_list_block(front_matter(d), k)
  IN  [i \in 1..Len(raws) |-> trim(raws[i])]

C5_ParsersAgree ==
  \A f \in Files :
    matter(corpus[f]).ok =>
      /\ \A k \in {"id", "status", "review_by", "last_verified", "deprecated_date"} :
           FullScalar(corpus[f], k) = DegradedScalar(corpus[f], k)
      /\ FullList(corpus[f], "related") = DegradedList(corpus[f], "related")

\* C6: when its scan completes the degraded auditor exits 2 if and only if
\* its Overdue list is non-empty, and 0 otherwise.
C6_ShExitTwoIffOverdue ==
  ShRan =>
     shExit = IF validated_overdue # <<>> THEN 2 ELSE 0

\* C7: without python3, or with an invalid catalog root, the degraded
\* auditor exits 1.
C7_ShScriptErrorExitsOne ==
  (shPc = "done" /\ (~env.python3 \/ ~env.rootOk)) => shExit = 1

\* C9: a record whose related list names a deprecated record B is reported
\* exactly once for B, a record with no such related id is not reported.
C9_DeprecatedRefOnce ==
  /\ JsRan => \A f \in Files : \A b \in DeprecatedIds \cup RefRelated(corpus[f]) :
                JsRefCount(f, b) =
                  IF b \in DeprecatedIds /\ b \in RefRelated(corpus[f]) THEN 1 ELSE 0
  /\ ShRan => \A f \in Files : \A b \in DeprecatedIds \cup RefRelated(corpus[f]) :
                ShRefCount(f, b) =
                  IF b \in DeprecatedIds /\ b \in RefRelated(corpus[f]) THEN 1 ELSE 0

\* C10: a review_by that is not a valid ISO date never puts its record in
\* Overdue, a last_verified that is not one never puts it in the
\* warnings, and the run completes.
C10_MalformedDateIsAbsent ==
  /\ JsRan => \A f \in JsOverdueFiles : IsISODate(RefScalar(corpus[f], "review_by"))
  /\ ShRan => /\ \A f \in ShOverdueFiles : IsISODate(RefScalar(corpus[f], "review_by"))
              /\ \A i \in 1..Len(validated_warn) :
                   IsISODate(RefScalar(corpus[validated_warn[i].file], "last_verified"))

\* main().catch printed an exception: validate ended inside one of its loops
VThrew == vPc = "done" /\ vI <= Len(corpus)

\* C11: sanitize-scan scans every file and exits 1 if and only if some file
\* matches a block rule; every warn-rule match is reported; a warn-rule match
\* changes the exit code neither of sanitize-scan nor of validate.
C11_SanitizeExitAndWarnings ==
  /\ sPc = "done" =>
       /\ sI > Len(corpus)
       /\ sExit = IF \E f \in Files : corpus[f].blocked > 0 THEN 1 ELSE 0
       /\ \A f \in Files :
            (corpus[f].warned > 0) <=> ([kind |-> "WARN", file |-> f] \in sLog)
  /\ (vPc = "done" /\ vExit = 1) =>
       VThrew \/ \E f \in Files : RecordHardFailure(corpus[f])

HardKinds == {"SCHEMA FAIL", "SANITIZE BLOCK", "STRUCTURE FAIL", "FRONTMATTER FAIL"}

\* C12: a similarity warning never sets the failure result of validate: the
\* result is set only together with a printed failure, and a run that prints
\* nothing but similarity warnings (no failure, no exception) exits 0.
C12_SimilarityIsAdvisory ==
  /\ failed => \E x \in vLog : x.kind \in HardKinds
  /\ (vPc = "done" /\ ~VThrew /\ \A x \in vLog : x.kind = "SIMILARITY WARN")
       => vExit = 0

\* validate has exited 0 after printing similarity warnings and nothing else
C12_Witness ==
  /\ vPc = "done" /\ vExit = 0
  /\ vLog # {} /\ \A x \in vLog : x.kind = "SIMILARITY WARN"

\* C13: for a record whose status is not validated the lifecycle auditor
\* reports no missing section, no short body and no missing or empty field.
C13_NoStructuralFailureUnlessValidated ==
  \A x \in vLog :
    x.kind \in {"STRUCTURE FAIL", "FRONTMATTER FAIL"} =>
      RefScalar(corpus[x.file], "status") = tValidated

\* a draft with no section, an empty body and no maintainers was checked and
\* nothing was reported for it
C13_Witness ==
  \E f \in Files :
    /\ << f, "lifecycle" >> \in vChecked
    /\ RefScalar(corpus[f], "status") = tDraft
    /\ corpus[f].chars < lifecycle.min_body_chars
    /\ RefFieldEmpty(corpus[f], "maintainers")
    /\ \A x \in vLog : x.file = f => x.kind \notin {"STRUCTURE FAIL", "FRONTMATTER FAIL"}

\* the items of a block list of the header
RefList(d, k) ==
  LET i == IF d.open THEN KeyLine(d.header, k) ELSE 0
      raws == IF i = 0 THEN <<>> ELSE ItemsAfter(d.header, i)
  IN  {RefText(raws[j]) : j \in 1..Len(raws)}

HasId(f) == RefScalar(corpus[f], "id") # <<>>

\* the flagging rule of section 4.5 with the default policy
RefFlagged(f, g) ==
  LET lev == levenshteinRatio(RefScalar(corpus[f], "title"), RefScalar(corpus[g], "title"))
  IN  \/ /\ RefScalar(corpus[f], "domain") # <<>>
         /\ RefScalar(corpus[f], "domain") = RefScalar(corpus[g], "domain")
         /\ Cardinality(RefList(corpus[f], "tags") \cap RefList(corpus[g], "tags")) >= 3
      \/ lev.num * 100 >= 70 * lev.den

\* C14: when validate is done, for every ordered pair of distinct records
\* that both have an id a similarity warning was printed if and only if the
\* pair meets the flagging rule; no warning names a record without an id.
C14_FlaggedIffRule ==
  vPc = "done" =>
    \A f, g \in Files :
      f # g =>
        (([kind |-> "SIMILARITY WARN", file |-> f, what |-> g] \in vLog)
           <=> (HasId(f) /\ HasId(g) /\ RefFlagged(f, g)))

\* C15: the two orders of a pair of records give the same sameDomain, the
\* same tagOverlap and the same titleRatio.
C15_SimilaritySymmetric ==
  vPc # "meta" =>
    \A f, g \in 1..Len(meta) :
      (f # g /\ Truthy(meta[f].id) /\ Truthy(meta[g].id)) =>
        SimilarityOutcome(meta[f], meta[g]) = SimilarityOutcome(meta[g], meta[f])

\* ------------------------------------------------------------------------
\* install.sh
\* ------------------------------------------------------------------------

MARKER_START == "<!-- halo-halo:start version=0.1 -->"
MARKER_END   == "<!-- halo-halo:end -->"
BLOCK_START  == "# --- halo-halo-patterns:local-start ---"
BLOCK_END    == "# --- halo-halo-patterns:local-end ---"

\* templates/consuming/.github/halo-halo.instructions.snippet.md: its lines
\* (here three of them), the last one ended by a newline
SNIPPET == << "## Halo-Halo Patterns Catalog", "", "- /halo-health" >>

\* $(cat "$SNIPPET"): command substitution drops the trailing newlines
RECURSIVE SNIPPET_CONTENT(_)
SNIPPET_CONTENT(lines) ==
  IF lines # <<>> /\ lines[Len(lines)] = ""
  THEN SNIPPET_CONTENT(SubSeq(lines, 1, Len(lines) - 1)) ELSE lines

\* grep -q "$MARKER" file (the lines used here hold a marker whole or not at all)
grepQ(marker, f) == f.exists /\ \E i \in 1..Len(f.lines) : f.lines[i] = marker

\* cat >> file <<EOF, the here-document starting with an empty line: its
\* first newline ends an unterminated last line, else makes an empty line
catAppend(f, block) ==
  [exists |-> TRUE,
   lines |-> f.lines \o (IF f.eol THEN << "" >> ELSE <<>>) \o block,
   eol |-> TRUE]

\* lines 59-69, the awk program on the lines from i on
RECURSIVE awkUpdate(_, _, _)
awkUpdate(lines, i, in_block) ==
  IF i > Len(lines) THEN <<>>
  ELSE IF lines[i] = MARKER_START
       THEN << lines[i] >> \o SNIPPET \o awkUpdate(lines, i + 1, TRUE)
  ELSE IF lines[i] = MARKER_END
       THEN << lines[i] >> \o awkUpdate(lines, i + 1, FALSE)
  ELSE (IF in_block THEN <<>> ELSE << lines[i] >>) \o awkUpdate(lines, i + 1, in_block)

\* lines 46-83: create, update or append
mergeInstructions(f) ==
  LET block == << MARKER_START >> \o SNIPPET_CONTENT(SNIPPET) \o << MARKER_END >>
  IN  IF ~f.exists
      THEN [exists |-> TRUE, lines |-> << "# Copilot Instructions", "" >> \o block,
            eol |-> TRUE]
      ELSE IF grepQ(MARKER_START, f)
      THEN [exists |-> TRUE, lines |-> awkUpdate(f.lines, 1, FALSE), eol |-> TRUE]
      ELSE catAppend(f, block)

\* line 88: touch
touch(f) == IF f.exists THEN f ELSE [exists |-> TRUE, lines |-> <<>>, eol |-> TRUE]

\* lines 87-104
addIgnoreBlock(f) ==
  IF ~grepQ(BLOCK_START, touch(f))
  THEN catAppend(touch(f), << BLOCK_START, ".halo-halo/local/**",
                              "!.halo-halo/local/README.md", BLOCK_END >>)
  ELSE touch(f)

\* lines 37-84
InstMerge ==
  /\ Running("install.sh") /\ instPc = "merge"
  /\ target' = [target EXCEPT !.copilot = mergeInstructions(@)]
  /\ instPc' = "gitignore"
  /\ UNCHANGED << inVars, queue, jsVars, shVars, vVars, sVars, ixVars, titleA, titleB,
                  ratio, instLog, rawText, split >>

\* lines 86-104, and the end of the run
InstGitignore ==
  /\ Running("install.sh") /\ instPc = "gitignore"
  /\ target' = [target EXCEPT !.gitignore = addIgnoreBlock(@)]
  /\ instLog' = Append(instLog, target')
  /\ instPc' = "merge" /\ queue' = Tail(queue)
  /\ UNCHANGED << inVars, jsVars, shVars, vVars, sVars, ixVars, titleA, titleB, ratio,
                  rawText, split >>

\* ------------------------------------------------------------------------
\* Specification: install.sh run on one target, one run after the other
\* ------------------------------------------------------------------------

MaxRuns == 3

TextFile(lines, eol) == [exists |-> TRUE, lines |-> lines, eol |-> eol]

Gitignores ==
  { NoFile,
    TextFile(<< "node_modules" >>, TRUE),
    \* no newline at the end
    TextFile(<< "node_modules" >>, FALSE),
    \* the block of an earlier installation, lines after it
    TextFile(<< "node_modules", "", BLOCK_START, ".halo-halo/local/**",
                "!.halo-halo/local/README.md", BLOCK_END, "dist" >>, TRUE),
    \* a start marker and nothing of the block after it
    TextFile(<< "node_modules", BLOCK_START >>, TRUE) }

Instructions ==
  { NoFile,
    TextFile(<< "top" >>, TRUE),
    TextFile(<< "top" >>, FALSE),
    \* a block with other content, text after it
    TextFile(<< "top", MARKER_START, "old", MARKER_END, "bottom" >>, TRUE),
    \* a start marker, no end marker
    TextFile(<< "top", MARKER_START, "old", "bottom" >>, TRUE) }

InitInst ==
  /\ corpus = <<>>
  /\ today = d2025
  /\ env = [python3 |-> TRUE, rootOk |-> TRUE, nounsetStrict |-> TRUE,
            tables |-> AllTables]
  /\ sanRules = [flags |-> <<>>]
  /\ queue \in {[i \in 1..n |-> "install.sh"] : n \in 1..MaxRuns}
  /\ Idle /\ indexMd = NoIndex
  /\ titleA = <<>> /\ titleB = <<>> /\ ratio = NoRatio
  /\ rawText = <<>> /\ split = NoSplit
  /\ instPc = "merge"
  /\ target \in [gitignore : Gitignores, copilot : Instructions]
  /\ instLog = << target >>

NextInst == InstMerge \/ InstGitignore

SpecInst == InitInst /\ [][NextInst]_vars

\* ------------------------------------------------------------------------
\* C16: the title ratio
\* ------------------------------------------------------------------------

\* a title after normalization, built character by character: lower case,
\* letters and digits kept (the hyphen too when hyphen is TRUE), a run of
\* white space kept as one space, none at either end, all else dropped
RECURSIVE RefNormal(_, _, _)
RefNormal(t, acc, hyphen) ==
  IF t = <<>>
  THEN IF acc # <<>> /\ acc[Len(acc)] = " " THEN SubSeq(acc, 1, Len(acc) - 1) ELSE acc
  ELSE LET c == Lower(Head(t))
           kept == \/ c \in Digits
                   \/ c \in {"a", "b", "c", "d", "e", "f", "g", "h", "i", "j", "k", "l", "m",
                              "n", "o", "p", "q", "r", "s", "t", "u", "v", "w", "x", "y", "z"}
                   \/ hyphen /\ c = "-"
       IN  RefNormal(Tail(t),
                     IF kept THEN Append(acc, c)
                     ELSE IF c = " " /\ acc # <<>> /\ acc[Len(acc)] # " "
                          THEN Append(acc, " ") ELSE acc,
                     hyphen)

\* the edit distance: fewest insertions, deletions and substitutions
RECURSIVE RefDistance(_, _)
RefDistance(a, b) ==
  IF a = <<>> THEN Len(b)
  ELSE IF b = <<>> THEN Len(a)
  ELSE IF Head(a) = Head(b) THEN RefDistance(Tail(a), Tail(b))
  ELSE 1 + Min3(RefDistance(Tail(a), b), RefDistance(a, Tail(b)),
                RefDistance(Tail(a), Tail(b)))

\* the ratio returned is the one the definition gives for the normalized titles
RefRatioIs(hyphen) ==
  ratio # NoRatio =>
    LET a == RefNormal(titleA, <<>>, hyphen)
        b == RefNormal(titleB, <<>>, hyphen)
        maxLen == IF Len(a) > Len(b) THEN Len(a) ELSE Len(b)
    IN  /\ ratio.den > 0 /\ 0 <= ratio.num /\ ratio.num <= ratio.den
        /\ (a = <<>> /\ b = <<>>) => ratio.num = ratio.den
        /\ ((a = <<>>) # (b = <<>>)) => ratio.num = 0
        /\ (a # <<>> /\ b # <<>>) =>
             ratio.num * maxLen = (maxLen - RefDistance(a, b)) * ratio.den
        /\ titleA = titleB => ratio.num = ratio.den

RowFile(line) == CHOOSE f \in Files : PathOf(f) = line[6]

\* (domain, id) of file f is not after that of file g: by domain, then by
\* id, each compared character by character; a missing field is empty
RefKeyLeq(f, g) ==
  LET fd == RefScalar(corpus[f], "domain")
      gd == RefScalar(corpus[g], "domain")
      fi == RefScalar(corpus[f], "id")
      gi == RefScalar(corpus[g], "id")
  IN  StrLt(fd, gd) \/ (fd = gd /\ (fi = gi \/ StrLt(fi, gi)))

\* C17: after an index run INDEX.md holds exactly one row per record file
\* of the corpus, and its rows are in non-decreasing lexicographic order of
\* the key (domain, id).
C17_OneRowPerFileSorted ==
  \A r \in 1..Len(ixLeft) :
    LET md == ixLeft[r].md
    IN  /\ md.exists
        /\ Len(md.rows) = Len(corpus)
        /\ \A f \in Files :
             Cardinality({i \in 1..Len(md.rows) : md.rows[i][6] = PathOf(f)}) = 1
        /\ \A i \in 1..(Len(md.rows) - 1) :
             RefKeyLeq(RowFile(md.rows[i]), RowFile(md.rows[i + 1]))

\* C18: a second index run on the unchanged corpus leaves INDEX.md exactly
\* as the first run left it (and ends as the first did), also when records
\* share a (domain, id) key or lack these fields.
C18_SecondRunSameIndex ==
  Len(ixLeft) = 2 => ixLeft[2] = ixLeft[1]

\* two runs that wrote two rows with equal keys, or a row without the fields
C18_Witness ==
  /\ Len(ixLeft) = 2 /\ ixLeft[2].exit = 0 /\ Len(corpus) = 2
  /\ indexMd.exists /\ indexMd # StaleIndex
  /\ \/ corpus[1] # corpus[2] /\ RefKeyLeq(1, 2) /\ RefKeyLeq(2, 1)
     \/ \E f \in Files : RefScalar(corpus[f], "domain") = <<>>

\* ------------------------------------------------------------------------
\* C19, C20: the installer
\* ------------------------------------------------------------------------

\* the places of lines where the consecutive lines of block stand
RefPlaces(lines, block) ==
  {i \in 1..(Len(lines) - Len(block) + 1) : SubSeq(lines, i, i + Len(block) - 1) = block}

RefCount(lines, marker) == Cardinality({i \in 1..Len(lines) : lines[i] = marker})

\* the lines outside a marker block: those not from a start marker to the
\* next end marker
RECURSIVE RefOutside(_)
RefOutside(lines) ==
  LET ends == {j \in 2..Len(lines) : lines[j] = MARKER_END}
  IN  IF lines = <<>> THEN <<>>
      ELSE IF lines[1] = MARKER_START /\ ends # {}
           THEN RefOutside(SubSeq(lines, 1 + (CHOOSE j \in ends : \A h \in ends : j <= h),
                                  Len(lines)))
      ELSE << lines[1] >> \o RefOutside(Tail(lines))

\* the lines of a, in their order, are among the lines of b
RECURSIVE RefWithin(_, _)
RefWithin(a, b) ==
  IF a = <<>> THEN TRUE
  ELSE IF b = <<>> THEN FALSE
  ELSE IF Head(a) = Head(b) THEN RefWithin(Tail(a), Tail(b))
  ELSE RefWithin(a, Tail(b))

\* C19: after any number (>= 1) of runs of install.sh on a target,
\* .gitignore holds exactly one local block (start marker, the two ignore
\* rules, end marker) and the lines it had before the first run, unchanged.
C19_OneIgnoreBlock ==
  \A r \in 2..Len(instLog) :
    LET g == instLog[r].gitignore.lines
        g0 == instLog[1].gitignore.lines
    IN  /\ Cardinality(RefPlaces(g, << BLOCK_START, ".halo-halo/local/**",
                                       "!.halo-halo/local/README.md", BLOCK_END >>)) = 1
        /\ RefCount(g, BLOCK_START) = 1 /\ RefCount(g, BLOCK_END) = 1
        /\ Len(g) >= Len(g0) /\ SubSeq(g, 1, Len(g0)) = g0

\* C20: whether copilot-instructions.md was absent, had no Halo block or
\* had one, after any number (>= 1) of runs it holds exactly one marker
\* block, whose content is the snippet; a further run leaves it unchanged;
\* the text it had outside the marker block is still there.
C20_OneInstructionsBlock ==
  \A r \in 2..Len(instLog) :
    LET c == instLog[r].copilot.lines
        c0 == instLog[1].copilot.lines
    IN  /\ Cardinality(RefPlaces(c, << MARKER_START >> \o SNIPPET \o << MARKER_END >>)) = 1
        /\ RefCount(c, MARKER_START) = 1 /\ RefCount(c, MARKER_END) = 1
        /\ r > 2 => instLog[r].copilot = instLog[r - 1].copilot
        /\ RefWithin(RefOutside(c0), RefOutside(c))

\* ------------------------------------------------------------------------
\* C21, C22: what the lifecycle auditor reports for a validated record
\* ------------------------------------------------------------------------

\* the validated records of the corpus
RefValidated == {f \in Files : RefScalar(corpus[f], "status") = tValidated}

\* the sections the policy requires of file f that its body does not have
RefMissingSections(f) ==
  LET req == getReqSections(lifecycle, Str(RefScalar(corpus[f], "type")))
  IN  {req[i] : i \in {j \in 1..Len(req) : req[j] \notin corpus[f].headings}}

\* what was reported for file f under kind, the body length apart
Reported(f, kind) ==
  {x.what : x \in {y \in vLog : y.file = f /\ y.kind = kind /\ y.what # "body too short"}}

RefFields == {lifecycle.required_front_matter_fields[i] :
                i \in 1..Len(lifecycle.required_front_matter_fields)}

\* C21: when validate has ended, the section failures reported for a
\* validated record are exactly its missing required sections, one failure
\* each, and the field failures exactly its configured fields that are
\* absent or empty, one failure each.
C21_EachMissingReported ==
  vPc = "done" =>
    \A f \in RefValidated :
      /\ Reported(f, "STRUCTURE FAIL") = RefMissingSections(f)
      /\ Reported(f, "FRONTMATTER FAIL") = {k \in RefFields : RefFieldEmpty(corpus[f], k)}

\* C22: for a validated record that was checked, a configured field is
\* reported exactly when it is absent from the header or its value is
\* empty; a value such as false or 0 is not empty.
C22_FieldReportedIffAbsentOrEmpty ==
  \A f \in RefValidated : \A k \in RefFields :
    << f, "lifecycle" >> \in vChecked =>
      (k \in Reported(f, "FRONTMATTER FAIL") <=> RefFieldEmpty(corpus[f], k))

\* ------------------------------------------------------------------------
\* C23: the body length
\* ------------------------------------------------------------------------

\* C23: the body of a record is found too short if and only if the
\* character count of everything after the metadata header, the body text
\* the parser returns, is below min_body_chars.
C23_ShortIffBodyBelowMinimum ==
  split.done => (split.short <=> Len(split.content) < lifecycle.min_body_chars)

\* ------------------------------------------------------------------------
\* C24: the StaleVerification list
\* ------------------------------------------------------------------------

\* the records verified too long ago: validated, last_verified a date more
\* than the threshold of days before today
RefStaleRecords ==
  {f \in Files : /\ RefScalar(corpus[f], "status") = tValidated
                 /\ IsISODate(RefScalar(corpus[f], "last_verified"))
                 /\ DayNumber(today) - DayNumber(RefScalar(corpus[f], "last_verified"))
                      > MAX_LAST_VERIFIED_DAYS}

\* C24: the StaleVerification list staleness.sh puts out holds exactly the
\* validated records whose last_verified is a valid date more than 90 days
\* before today.
C24_StaleVerificationList ==
  ShRan => {validated_warn[i].file : i \in 1..Len(validated_warn)} = RefStaleRecords

\* ------------------------------------------------------------------------
\* The corpus-wide phases and the order of the files
\* ------------------------------------------------------------------------

\* the corpus read in the order p
RefOrder(p) == [i \in Files |-> corpus[p[i]]]

\* every header of c parses
RefParses(c) == \A f \in 1..Len(c) : matter(c[f]).ok

\* the catalog after the byId pass over c (lines 173-176)
RECURSIVE RefCatalog(_, _, _)
RefCatalog(c, i, m) ==
  IF i > Len(c) THEN m
  ELSE LET data == matter(c[i]).data
       IN  RefCatalog(c, i + 1,
                      IF Truthy(data["id"]) /\ IsMapKey(data["id"])
                      THEN Put(m, data["id"], [status |-> data["status"], file |-> i])
                      ELSE m)

\* the deprecated references a staleness run over c reports: the record
\* and the id it names
RefRefsIn(c) ==
  LET m == RefCatalog(c, 1, EmptyMap)
      refs(f) == JsRefs(m, matter(c[f]).data, f, JsRelated(matter(c[f]).data["related"]))
  IN  UNION {{<< c[f], refs(f)[i].references >> : i \in 1..Len(refs(f))} :
               f \in 1..Len(c)}

\* the similarity warnings a validate run over c prints before it ends:
\* the two records of each
RECURSIVE RefSimilarIn(_, _, _)
RefSimilarIn(c, m, i) ==
  IF i > Len(c) THEN {}
  ELSE LET self == m[i]
           others == IF Truthy(self.id) THEN Others(m, i) ELSE {}
           bad == {g \in others : SimilarityThrows(self, m[g])}
           stop == IF bad = {} THEN Len(m) + 1
                   ELSE CHOOSE g \in bad : \A h \in bad : g <= h
       IN  {<< c[i], c[g] >> : g \in {h \in others : h < stop /\ IsSimilar(self, m[h])}}
             \cup (IF bad = {} THEN RefSimilarIn(c, m, i + 1) ELSE {})

RefMetaIn(c) == [f \in 1..Len(c) |-> MetaOf(f, matter(c[f]).data)]

\* what the runs reported
RefRefsReported ==
  {<< corpus[deprecatedRefs[i].file], deprecatedRefs[i].references >> :
     i \in 1..Len(deprecatedRefs)}
RefSimilarReported ==
  {<< corpus[x.file], corpus[x.what] >> : x \in {y \in vLog : y.kind = "SIMILARITY WARN"}}

\* every file that has an id is in the catalog
RefAllLoaded ==
  \A f \in Files :
    LET parsed == matter(corpus[f])
    IN  (parsed.ok /\ Truthy(parsed.data["id"]) /\ IsMapKey(parsed.data["id"]))
          => parsed.data["id"] \in DOMAIN byId

\* C25 (first part): no similarity comparison and no deprecated-reference
\* lookup is made before every file has been parsed and entered.
C25_Barrier ==
  /\ (vPc = "check" \/ vLog # {}) => Len(meta) = Len(corpus)
  /\ (jsPc = "audit" \/ deprecatedRefs # <<>>) => RefAllLoaded
  /\ (shPc = "second" \/ referenced_deprecated # <<>>) =>
       \A f \in 1..Len(ShFiles) :
         LET r == ShFields(front_matter(ShFiles[f]))
         IN  r["id"] # <<>> => r["id"] \in DOMAIN status_by_id

\* C25: the corpus-wide phases run after the whole corpus is loaded, so the
\* deprecated references and the similarity warnings of a run are the same
\* in whatever order the files are read.
C25_FindingsWhateverTheOrder ==
  /\ C25_Barrier
  /\ JsRan =>
       \A p \in Permutations(Files) : RefRefsIn(RefOrder(p)) = RefRefsReported
  /\ (vPc = "done" /\ RefParses(corpus)) =>
       \A p \in Permutations(Files) :
         RefSimilarIn(RefOrder(p), RefMetaIn(RefOrder(p)), 1) = RefSimilarReported

\* C26: the catalog is read-only during a run.  No step of validate,
\* sanitize-scan, staleness or staleness.sh creates, changes or deletes a
\* file; the only file written is INDEX.md, by index, and the record files
\* and the rule files stay as they were.
C26_CatalogReadOnly ==
  [][/\ corpus' = corpus
     /\ sanRules' = sanRules
     /\ shWrote' = shWrote
     /\ (indexMd' # indexMd => Running("index"))]_vars

\* ------------------------------------------------------------------------
\* C27: where the header ends
\* ------------------------------------------------------------------------

\* the lines of a text, without their newlines; a last line that has no
\* newline counts as well
RECURSIVE RefLines(_, _)
RefLines(t, line) ==
  IF t = <<>> THEN (IF line = <<>> THEN <<>> ELSE << line >>)
  ELSE IF Head(t) = NL THEN << line >> \o RefLines(Tail(t), <<>>)
  ELSE RefLines(Tail(t), Append(line, Head(t)))

RefDelimiter == << "-", "-", "-" >>

\* the first line is a delimiter, and where the next delimiter line is (0: nowhere)
RefOpens(ls) == ls # <<>> /\ ls[1] = RefDelimiter
RefCloseLine(ls) ==
  LET later == {i \in 2..Len(ls) : ls[i] = RefDelimiter}
  IN  IF later = {} THEN 0 ELSE Least(later)

\* the text of the lines of a header, each after the newline that ends the
\* line before it
RECURSIVE RefBetween(_)
RefBetween(ls) == IF ls = <<>> THEN <<>> ELSE << NL >> \o Head(ls) \o RefBetween(Tail(ls))

\* C27: the header is the lines between a first line that is exactly "---"
\* and the next line that is exactly "---", the body is what follows; a text
\* whose first line is not exactly "---" has no header and is all body.
C27_HeaderBetweenDelimiterLines ==
  split.done =>
    LET ls == RefLines(rawText, <<>>)
        c == RefCloseLine(ls)
    IN  /\ (RefOpens(ls) /\ c > 0) =>
              /\ split.matter = RefBetween(SubSeq(ls, 2, c - 1))
              /\ RefLines(split.content, <<>>) = SubSeq(ls, c + 1, Len(ls))
              /\ split.chars = Len(trimWhite(JoinLines(SubSeq(ls, c + 1, Len(ls)))))
        /\ ~RefOpens(ls) =>
              /\ split.matter = <<>>
              /\ split.content = rawText
              /\ split.chars = Len(trimWhite(rawText))

\* ------------------------------------------------------------------------
\* C28: a scan and the scans before it
\* ------------------------------------------------------------------------

\* what the rules find in a text when nothing was scanned before
RefScan(d) == scan(d, compileSan)

\* C28: the blocked and the warned list of a file are those its text gives
\* with the rule set alone, whatever files were scanned before it and
\* whatever flags the rules carry, in sanitize-scan and in validate.
C28_ScanOfTextAlone ==
  /\ \A f \in 1..(sI - 1) :
       /\ ([kind |-> "WARN", file |-> f] \in sLog) <=> RefScan(corpus[f]).warned
       /\ ([kind |-> "BLOCK", file |-> f] \in sLog) <=> RefScan(corpus[f]).blocked
  /\ \A f \in {g \in Files : << g, "sanitize" >> \in vChecked} :
       /\ ([kind |-> "WARN", file |-> f, what |-> ""] \in vLog) <=> RefScan(corpus[f]).warned
       /\ ([kind |-> "SANITIZE BLOCK", file |-> f, what |-> ""] \in vLog)
            <=> RefScan(corpus[f]).blocked

\* ------------------------------------------------------------------------
\* patternlint.mjs main: the rule tables
\* ------------------------------------------------------------------------

\* as if gatekeeper.json were read when the first pair is compared
readJSONThrowsLate(tabs) == \E t \in RuleTables \ {"gatekeeper"} : ~tabs[t]

\* lines 70-73: one of the four readJSON calls throws (ENOENT, SyntaxError)
readJSONThrows(tabs) == \E t \in RuleTables : ~tabs[t]

\* lines 61-77 for the command that follows in the queue: the tables are
\* read before the command is looked at; an exception ends the process in
\* main().catch with exit 1 (line 196)
Main ==
  /\ Running("main")
  /\ IF ~readJSONThrows(env.tables)
     THEN /\ queue' = Tail(queue)
          /\ UNCHANGED << jsVars, vVars, sVars, ixVars >>
     ELSE LET cmd == queue[2]
          IN  /\ queue' = Tail(Tail(queue))
              /\ IF cmd = "sanitize-scan"
                 THEN sPc' = "done" /\ sExit' = 1 /\ UNCHANGED << sI, sFailed, sLog, sLast >>
                 ELSE UNCHANGED sVars
              /\ IF cmd = "validate"
                 THEN /\ vPc' = "done" /\ vExit' = 1
                      /\ UNCHANGED << vI, meta, failed, vLog, vChecked, vLast >>
                 ELSE UNCHANGED vVars
              /\ IF cmd = "index"
                 THEN /\ ixLeft' = Append(ixLeft, [exit |-> 1, md |-> indexMd])
                      /\ UNCHANGED << ixPc, ixI, rows, indexMd >>
                 ELSE UNCHANGED ixVars
              /\ IF cmd = "staleness"
                 THEN /\ jsPc' = "done" /\ jsExit' = 1
                      /\ UNCHANGED << jsI, byId, overdue, deprecatedRefs, jsOut >>
                 ELSE UNCHANGED jsVars
  /\ UNCHANGED << inVars, shVars, tVars >>

\* ------------------------------------------------------------------------
\* Specification: the four sub-commands, each from its start, on one file
\* and any set of readable tables
\* ------------------------------------------------------------------------

LoadCorpora == {c \in VCorpora : Len(c) = 1}

InitLoad ==
  /\ corpus \in LoadCorpora
  /\ today = d2025
  /\ env \in [python3 : {TRUE}, rootOk : {TRUE}, nounsetStrict : {TRUE},
              tables : [RuleTables -> BOOLEAN]]
  /\ sanRules = [flags |-> <<>>]
  /\ queue = << "main", "sanitize-scan", "main", "validate",
                "main", "index", "main", "staleness" >>
  /\ Fresh

NextLoad ==
  \/ Main
  \/ SScan \/ SExit
  \/ VMeta \/ VMetaDone \/ VCheck \/ VExit
  \/ IxRow \/ IxWrite
  \/ JsLoad \/ JsLoaded \/ JsAudit \/ JsReport

SpecLoad == InitLoad /\ [][NextLoad]_vars

\* no record was read by any command
RefNothingRead ==
  /\ sI = 1 /\ sLog = {}
  /\ vI = 1 /\ meta = <<>> /\ vLog = {} /\ vChecked = {}
  /\ ixI = 1 /\ rows = <<>>
  /\ jsI = 1 /\ byId = EmptyMap /\ overdue = <<>> /\ deprecatedRefs = <<>> /\ jsOut = <<>>

\* C29: when one of the four tables cannot be read or parsed, every
\* sub-command ends with exit code 1, no record is evaluated and INDEX.md
\* is not written; the tables are read before any record is.
C29_TablesBeforeRecords ==
  (\E t \in RuleTables : ~env.tables[t]) =>
    /\ RefNothingRead
    /\ indexMd = NoIndex
    /\ sPc = "done" => sExit = 1
    /\ vPc = "done" => vExit = 1
    /\ jsPc = "done" => jsExit = 1
    /\ \A i \in 1..Len(ixLeft) : ixLeft[i].exit = 1

\* the four commands have ended on a root whose gatekeeper.json is missing
C29_Witness ==
  /\ ~env.tables["gatekeeper"]
  /\ queue = <<>>
  /\ sExit = 1 /\ vExit = 1 /\ jsExit = 1 /\ Len(ixLeft) = 1

\* ------------------------------------------------------------------------
\* Specification: validate, staleness and staleness.sh on a corpus in which
\* two files may carry the same id
\* ------------------------------------------------------------------------

NDup == 3

DupDocs ==
  { \* a deprecated record
    VDoc(TRUE, << KV("id", Sp(p2)), KV("title", Sp(tAb)), KV("status", Sp(tDeprecated)) >>,
         TRUE, 0, 0, {}, 5),
    \* a draft with the same id and the same title
    VDoc(TRUE, << KV("id", Sp(p2)), KV("title", Sp(tAb)), KV("status", Sp(tDraft)) >>,
         TRUE, 0, 0, {}, 5),
    \* a draft that names that id as related
    VDoc(TRUE, << KV("id", Sp(p1)), KV("title", Sp(tXy)), KV("status", Sp(tDraft)),
                  KV("related", <<>>), It(Sp(p2)) >>,
         TRUE, 0, 0, {}, 5) }

DupCorpora == [1..NDup -> DupDocs]

InitDup ==
  /\ corpus \in DupCorpora
  /\ today = d2025
  /\ env \in [python3 : {TRUE}, rootOk : {TRUE}, nounsetStrict : BOOLEAN,
              tables : {AllTables}]
  /\ sanRules = [flags |-> <<>>]
  /\ queue = << "validate", "staleness", "staleness.sh" >>
  /\ Fresh

NextDup ==
  \/ VMeta \/ VMetaDone \/ VCheck \/ VExit
  \/ JsLoad \/ JsLoaded \/ JsAudit \/ JsReport
  \/ ShStart \/ ShScan \/ ShScanned \/ ShSecond \/ ShReport

SpecDup == InitDup /\ [][NextDup]_vars

\* the files that carry the id, and the one of them read last
RefWithId(id) == {f \in Files : RefScalar(corpus[f], "id") = id}
RefLast(id) == CHOOSE f \in RefWithId(id) : \A g \in RefWithId(id) : g <= f

RefIds == {RefScalar(corpus[f], "id") : f \in Files} \ {<<>>}

\* the related edges to an id whose last-read record is deprecated
RefEdgesToLastDeprecated ==
  {<< f, id >> \in Files \X RefIds :
     /\ id \in RefRelated(corpus[f])
     /\ RefScalar(corpus[RefLast(id)], "status") = tDeprecated}

\* C30 for patternlint.mjs: a repeated id is no error; byId holds one entry
\* per id, that of the file read last; the references reported follow it;
\* two files with one id are compared with each other like any two files.
C30_DuplicateIdsJs ==
  /\ vPc = "done" =>
       /\ vExit = 0
       /\ \A x \in vLog : x.kind = "SIMILARITY WARN"
       /\ \A f, g \in Files :
            (f # g /\ IsSimilar(meta[f], meta[g])) =>
              [kind |-> "SIMILARITY WARN", file |-> f, what |-> g] \in vLog
  /\ JsRan =>
       /\ DOMAIN byId = {Str(id) : id \in RefIds}
       /\ \A id \in RefIds :
            /\ byId[Str(id)].file = RefLast(id)
            /\ byId[Str(id)].status = Str(RefScalar(corpus[RefLast(id)], "status"))
       /\ JsRefPairs = RefEdgesToLastDeprecated
  /\ jsPc = "done" => jsExit = 0

\* C30: when two files carry the same id no command reports an error; the
\* catalog of each front end holds one entry per id with the status of the
\* record read last, the deprecated references follow that record, and the
\* similarity check still compares the two files.
C30_DuplicateIds ==
  /\ C30_DuplicateIdsJs
  /\ ShRan =>
       /\ DOMAIN status_by_id = RefIds
       /\ \A id \in RefIds :
            status_by_id[id] = RefScalar(corpus[RefLast(id)], "status")
       /\ ShRefPairs = RefEdgesToLastDeprecated

====
